---- MODULE Spec2Model ----
(***************************************************************************)
(* env-guardian: the scanning engine of src/src/index.ts (lines 1-337).    *)
(* Texts are strings; a character is a string of length one.  Regular      *)
(* expressions of the source are translated one by one into operators on   *)
(* strings that compute what the JavaScript engine computes for them.      *)
(***************************************************************************)
EXTENDS Integers, Sequences, FiniteSets, TLC

(***************************************************************************)
(* Characters and character classes.                                       *)
(***************************************************************************)
Ch(s, i) == SubSeq(s, i, i)

LowerChars ==
  {"a","b","c","d","e","f","g","h","i","j","k","l","m",
   "n","o","p","q","r","s","t","u","v","w","x","y","z"}

UpperChars ==
  {"A","B","C","D","E","F","G","H","I","J","K","L","M",
   "N","O","P","Q","R","S","T","U","V","W","X","Y","Z"}

DigitChars == {"0","1","2","3","4","5","6","7","8","9"}

\* \s of a JavaScript regular expression, as far as the texts here go
SpaceChars == {" ", "\t", "\n", "\r"}

\* the line terminators that . does not match and that $ (with m) stops at
LineTerminators == {"\n", "\r"}

\* ['"`]: the texts of this model hold no backtick (the character cannot be
\* written in a string here), so the class is its other two members
QuoteChars == {"'", "\""}

\* [A-Z0-9_]
EnvNameChars == UpperChars \cup DigitChars \cup {"_"}

\* \w
WordChars == LowerChars \cup UpperChars \cup DigitChars \cup {"_"}

\* [A-Za-z_$] and [A-Za-z0-9_$]
JsIdentStart == LowerChars \cup UpperChars \cup {"_", "$"}
JsIdentChars == JsIdentStart \cup DigitChars

\* [A-Za-z_] and [A-Za-z0-9_]
PyIdentStart == LowerChars \cup UpperChars \cup {"_"}
PyIdentChars == WordChars

\* [A-Za-z0-9-_] and [A-Za-z0-9_\-]
TokenChars == WordChars \cup {"-"}

LowerOf ==
  [c \in UpperChars |->
     CASE c = "A" -> "a" [] c = "B" -> "b" [] c = "C" -> "c" [] c = "D" -> "d"
       [] c = "E" -> "e" [] c = "F" -> "f" [] c = "G" -> "g" [] c = "H" -> "h"
       [] c = "I" -> "i" [] c = "J" -> "j" [] c = "K" -> "k" [] c = "L" -> "l"
       [] c = "M" -> "m" [] c = "N" -> "n" [] c = "O" -> "o" [] c = "P" -> "p"
       [] c = "Q" -> "q" [] c = "R" -> "r" [] c = "S" -> "s" [] c = "T" -> "t"
       [] c = "U" -> "u" [] c = "V" -> "v" [] c = "W" -> "w" [] c = "X" -> "x"
       [] c = "Y" -> "y" [] c = "Z" -> "z"]

\* String.prototype.toLowerCase on one character
LowerCh(c) == IF c \in UpperChars THEN LowerOf[c] ELSE c

RECURSIVE toLowerCase(_)
toLowerCase(s) ==
  IF Len(s) = 0 THEN ""
  ELSE LowerCh(Ch(s, 1)) \o toLowerCase(SubSeq(s, 2, Len(s)))

\* String.prototype.toUpperCase
UpperCh(c) ==
  IF c \in LowerChars THEN CHOOSE u \in UpperChars : LowerOf[u] = c ELSE c

RECURSIVE toUpperCase(_)
toUpperCase(s) ==
  IF Len(s) = 0 THEN ""
  ELSE UpperCh(Ch(s, 1)) \o toUpperCase(SubSeq(s, 2, Len(s)))

\* equality of two characters, under the i flag or not
SameCh(a, b, ci) == IF ci THEN LowerCh(a) = LowerCh(b) ELSE a = b

\* the literal text w occurs in s at position i
LitAt(s, i, w, ci) ==
  /\ i >= 1
  /\ i + Len(w) - 1 <= Len(s)
  /\ \A j \in 1..Len(w) : SameCh(Ch(s, i + j - 1), Ch(w, j), ci)

\* the literal text w occurs somewhere in s
Has(s, w, ci) == \E i \in 1..(Len(s) - Len(w) + 1) : LitAt(s, i, w, ci)

AllIn(s, class) == \A i \in 1..Len(s) : Ch(s, i) \in class

\* the least element of a non-empty set of integers
Least(S) == CHOOSE x \in S : \A y \in S : x <= y

\* first position >= i that holds a character of class, Len(s)+1 if none
FindCh(s, i, class) ==
  IF i > Len(s) THEN i
  ELSE Least({j \in i..Len(s) : Ch(s, j) \in class} \cup {Len(s) + 1})

\* end (exclusive) of the longest run of characters of class that starts at i
RunEnd(s, i, class) ==
  IF i > Len(s) THEN i
  ELSE Least({j \in i..Len(s) : Ch(s, j) \notin class} \cup {Len(s) + 1})

\* String.prototype.trim
RECURSIVE TrimEnd(_)
TrimEnd(s) ==
  IF Len(s) > 0 /\ Ch(s, Len(s)) \in SpaceChars
  THEN TrimEnd(SubSeq(s, 1, Len(s) - 1)) ELSE s

trim(s) == TrimEnd(SubSeq(s, RunEnd(s, 1, SpaceChars), Len(s)))

(***************************************************************************)
(* stripComments (index.ts 20-24).                                         *)
(***************************************************************************)
\* the first position >= i where the text w occurs, 0 if there is none
FindLit(s, i, w) ==
  LET at == {j \in i..Len(s) : LitAt(s, j, w, FALSE)}
  IN  IF at = {} THEN 0 ELSE Least(at)

\* .replace(/\/\*[\s\S]*?\*\//g, ""), scanning from position i: the next
\* match opens at the first "/*" that a "*/" follows
RECURSIVE StripBlockFrom(_, _)
StripBlockFrom(s, i) ==
  LET open  == FindLit(s, i, "/*")
      close == IF open = 0 THEN 0 ELSE FindLit(s, open + 2, "*/")
  IN  IF close = 0 THEN SubSeq(s, i, Len(s))
      ELSE SubSeq(s, i, open - 1) \o StripBlockFrom(s, close + 2)

\* a plausible slip: only the block comments are removed
stripComments_blocksOnly(src) == StripBlockFrom(src, 1)

\* .replace(/\/\/.*$/gm, ""), scanning from position i
RECURSIVE StripLineFrom(_, _)
StripLineFrom(s, i) ==
  LET open == FindLit(s, i, "//")
  IN  IF open = 0 THEN SubSeq(s, i, Len(s))
      ELSE SubSeq(s, i, open - 1)
             \o StripLineFrom(s, FindCh(s, open + 2, LineTerminators))

stripComments(src) == StripLineFrom(StripBlockFrom(src, 1), 1)

(***************************************************************************)
(* stripVueSections (index.ts 266-268).                                    *)
(***************************************************************************)
\* the first position >= i where w occurs in any case, 0 if there is none
FindTag(s, i, w) ==
  LET at == {j \in i..Len(s) : LitAt(s, j, w, TRUE)}
  IN  IF at = {} THEN 0 ELSE Least(at)

\* .replace(/<tag[\s\S]*?<\/tag>/gi, ""), scanning from position i
RECURSIVE StripSectionFrom(_, _, _, _)
StripSectionFrom(s, i, open, close) ==
  LET o == FindTag(s, i, open)
      c == IF o = 0 THEN 0 ELSE FindTag(s, o + Len(open), close)
  IN  IF c = 0 THEN SubSeq(s, i, Len(s))
      ELSE SubSeq(s, i, o - 1) \o StripSectionFrom(s, c + Len(close), open, close)

stripVueSections(src) ==
  StripSectionFrom(StripSectionFrom(src, 1, "<template", "</template>"), 1,
                   "<style", "</style>")

(***************************************************************************)
(* splitIdentifier (index.ts 29-35): a sequence of lowercase words.        *)
(***************************************************************************)
\* .replace(/([a-z0-9])([A-Z])/g, "$1 $2")
RECURSIVE CamelSpaced(_, _)
CamelSpaced(s, i) ==
  IF i > Len(s) THEN ""
  ELSE IF /\ i < Len(s)
          /\ Ch(s, i) \in LowerChars \cup DigitChars
          /\ Ch(s, i + 1) \in UpperChars
       THEN Ch(s, i) \o " " \o CamelSpaced(s, i + 1)
  ELSE Ch(s, i) \o CamelSpaced(s, i + 1)

\* [\s_\-]
SplitChars == SpaceChars \cup {"_", "-"}

\* .split(/[\s_\-]+/).map(toLowerCase).filter(Boolean), from position i
RECURSIVE SplitWords(_, _)
SplitWords(s, i) ==
  IF i > Len(s) THEN << >>
  ELSE IF Ch(s, i) \in SplitChars THEN SplitWords(s, RunEnd(s, i, SplitChars))
  ELSE LET e == FindCh(s, i, SplitChars)
       IN  <<toLowerCase(SubSeq(s, i, e - 1))>> \o SplitWords(s, e)

splitIdentifier(name) == SplitWords(CamelSpaced(name, 1), 1)

(***************************************************************************)
(* The regular expressions of the rule tables, as data, and RegExp.test.   *)
(* None of them has the g flag, so test keeps no state.                    *)
(*   sub      /a|b/         one of the texts w occurs                      *)
(*   subsub   /(a|b).*c/    one of w, then on the same line one of w2      *)
(*   start    /^a.*$/       starts with one of w, one line                 *)
(*   startcl  /^a[class]/   starts with one of w, then a class character   *)
(*   mid      /^.*a.*$/     one line that holds one of w                   *)
(*   end      /^.*a$/       one line that ends with one of w               *)
(*   exact    /^(a|b)$/     is one of w                                    *)
(*   run      /^[class]{min,}$/                                            *)
(*   dots     /^.{min,}$/                                                  *)
(*   jwt      /^[class]+\.[class]+\.[class]+$/                             *)
(***************************************************************************)
OneLine(s) == \A i \in 1..Len(s) : Ch(s, i) \notin LineTerminators

IsJwtShape(s, class) ==
  \E i, j \in 1..Len(s) :
     /\ 1 < i /\ i + 1 < j /\ j < Len(s)
     /\ Ch(s, i) = "." /\ Ch(s, j) = "."
     /\ AllIn(SubSeq(s, 1, i - 1), class)
     /\ AllIn(SubSeq(s, i + 1, j - 1), class)
     /\ AllIn(SubSeq(s, j + 1, Len(s)), class)

test(re, s) ==
  CASE re.k = "sub" -> \E w \in re.w : Has(s, w, re.ci)
    [] re.k = "subsub" ->
         \E a \in re.w, b \in re.w2 :
           \E i, j \in 1..Len(s) :
              /\ LitAt(s, i, a, re.ci)
              /\ j >= i + Len(a)
              /\ LitAt(s, j, b, re.ci)
              /\ OneLine(SubSeq(s, i + Len(a), j - 1))
    [] re.k = "start" ->
         \E w \in re.w : LitAt(s, 1, w, re.ci) /\ OneLine(SubSeq(s, Len(w) + 1, Len(s)))
    [] re.k = "startcl" ->
         \E w \in re.w :
            /\ LitAt(s, 1, w, re.ci)
            /\ Len(s) > Len(w)
            /\ Ch(s, Len(w) + 1) \in re.class
    [] re.k = "mid" -> OneLine(s) /\ \E w \in re.w : Has(s, w, re.ci)
    [] re.k = "end" ->
         OneLine(s) /\ \E w \in re.w : LitAt(s, Len(s) - Len(w) + 1, w, re.ci)
    [] re.k = "exact" ->
         \E w \in re.w : Len(s) = Len(w) /\ LitAt(s, 1, w, re.ci)
    [] re.k = "run" -> Len(s) >= re.min /\ AllIn(s, re.class)
    [] re.k = "dots" -> Len(s) >= re.min /\ OneLine(s)
    [] re.k = "jwt" -> IsJwtShape(s, re.class)

Sub(w) == [k |-> "sub", w |-> w, ci |-> TRUE]

Rule(re, sev) == [regex |-> re, severity |-> sev]

(***************************************************************************)
(* looksSensitiveName (index.ts 94-122).                                   *)
(***************************************************************************)
sensitive ==
  {"secret", "token", "key", "password", "passwd", "pwd", "apikey", "api",
   "auth", "jwt", "bearer", "client", "issuer", "webhook", "dsn", "vault",
   "salt", "private", "cert", "database", "connection", "mongo", "s3",
   "bucket"}

looksSensitiveName(name) ==
  LET words == splitIdentifier(name)
  IN  \E i \in 1..Len(words) : words[i] \in sensitive

(***************************************************************************)
(* extractStringLiteral (index.ts 127-130): raw.trim() must open with a    *)
(* quote and close with the same quote, anything (newlines too) between.   *)
(* The result is << >> for null and <<inner>> for the inner text.          *)
(***************************************************************************)
extractStringLiteral(raw) ==
  LET t == trim(raw)
  IN  IF /\ Len(t) >= 2
         /\ Ch(t, 1) \in QuoteChars
         /\ Ch(t, Len(t)) = Ch(t, 1)
      THEN <<SubSeq(t, 2, Len(t) - 1)>>
      ELSE << >>

(***************************************************************************)
(* looksLikeSecretLiteral (index.ts 135-148).                              *)
(***************************************************************************)
\* how many of /[a-z]/, /[A-Z]/, /\d/, /[^A-Za-z0-9]/ match str
CharClassCount(str) ==
  LET present(class) == \E i \in 1..Len(str) : Ch(str, i) \in class
      other == \E i \in 1..Len(str) :
                  Ch(str, i) \notin LowerChars \cup UpperChars \cup DigitChars
  IN  (IF present(LowerChars) THEN 1 ELSE 0)
      + (IF present(UpperChars) THEN 1 ELSE 0)
      + (IF present(DigitChars) THEN 1 ELSE 0)
      + (IF other THEN 1 ELSE 0)

LongTokenLen == 20

ConfigUrlWords ==
  {"api", "auth", "oauth", "db", "graphql", "issuer", "login", "token", "endpoint"}

looksLikeSecretLiteral(str) ==
  LET noSpace == \A i \in 1..Len(str) : Ch(str, i) \notin SpaceChars
  IN  IF IsJwtShape(str, TokenChars) THEN TRUE
      ELSE IF Len(str) >= LongTokenLen /\ CharClassCount(str) >= 2 /\ noSpace
           THEN TRUE
      ELSE IF /\ LitAt(str, 1, "http://", TRUE) \/ LitAt(str, 1, "https://", TRUE)
              /\ ~ (Has(str, "localhost", TRUE) \/ Has(str, "127.0.0.1", TRUE))
           THEN \E w \in ConfigUrlWords : Has(str, w, TRUE)
      ELSE FALSE

(***************************************************************************)
(* The rule tables (index.ts 153-227), in the order of the source.         *)
(***************************************************************************)
AlnumChars == LowerChars \cup UpperChars \cup DigitChars

LongNameLen == 32
ReasonablyLongLen == 20
CriticalValueLen == 40
HighValueLen == 20

SUSPICIOUS_NAMES ==
  << Rule([k |-> "startcl", w |-> {"sk_"}, ci |-> FALSE, class |-> AlnumChars], "CRITICAL"),
     Rule([k |-> "run", class |-> TokenChars, min |-> LongNameLen], "CRITICAL"),
     Rule([k |-> "subsub", w |-> {"PRIVATE", "SECRET"}, w2 |-> {"KEY"}, ci |-> TRUE], "CRITICAL"),
     Rule([k |-> "start", w |-> {"SECRET"}, ci |-> TRUE], "CRITICAL"),
     Rule([k |-> "mid", w |-> {"_SECRET"}, ci |-> TRUE], "CRITICAL"),
     Rule(Sub({"password"}), "CRITICAL"),
     Rule(Sub({"secret"}), "CRITICAL"),
     Rule([k |-> "exact", w |-> {"TOKEN", "ACCESS_TOKEN", "API_TOKEN", "JSON_TOKEN"},
           ci |-> TRUE], "CRITICAL"),
     Rule([k |-> "end", w |-> {"_TOKEN"}, ci |-> TRUE], "CRITICAL"),
     \* --- HIGH ---
     Rule(Sub({"apikey", "api-key", "api_key"}), "HIGH"),
     Rule(Sub({"token"}), "HIGH"),
     Rule(Sub({"private"}), "HIGH"),
     Rule(Sub({"clientsecret", "client-secret", "client_secret"}), "HIGH"),
     Rule([k |-> "dots", min |-> ReasonablyLongLen], "HIGH"),
     Rule(Sub({"jwt"}), "HIGH"),
     Rule(Sub({"bearer"}), "HIGH"),
     Rule(Sub({"dsn"}), "HIGH"),
     Rule(Sub({"connection"}), "HIGH"),
     Rule(Sub({"mongo"}), "HIGH"),
     Rule(Sub({"s3"}), "HIGH"),
     Rule(Sub({"bucket"}), "HIGH"),
     \* --- MEDIUM ---
     Rule(Sub({"key"}), "MEDIUM"),
     Rule(Sub({"id"}), "MEDIUM"),
     Rule(Sub({"user", "username"}), "MEDIUM"),
     Rule(Sub({"account"}), "MEDIUM"),
     Rule(Sub({"profile"}), "MEDIUM"),
     Rule(Sub({"email"}), "MEDIUM"),
     Rule(Sub({"phone"}), "MEDIUM"),
     Rule(Sub({"project"}), "MEDIUM"),
     Rule(Sub({"org", "organization"}), "MEDIUM"),
     Rule(Sub({"workspace"}), "MEDIUM"),
     Rule(Sub({"region"}), "MEDIUM"),
     Rule(Sub({"locale"}), "MEDIUM"),
     Rule(Sub({"timezone"}), "MEDIUM"),
     Rule(Sub({"cluster"}), "MEDIUM"),
     Rule(Sub({"host"}), "MEDIUM"),
     Rule(Sub({"server"}), "MEDIUM"),
     Rule(Sub({"instance"}), "MEDIUM"),
     Rule(Sub({"url"}), "MEDIUM"),
     Rule(Sub({"uri"}), "MEDIUM"),
     Rule(Sub({"schema"}), "MEDIUM"),
     \* --- LOW ---
     Rule(Sub({"port"}), "LOW"),
     Rule(Sub({"version"}), "LOW"),
     Rule(Sub({"mode"}), "LOW"),
     Rule(Sub({"flag"}), "LOW"),
     Rule(Sub({"color"}), "LOW"),
     Rule(Sub({"theme"}), "LOW"),
     Rule(Sub({"lang", "language"}), "LOW"),
     Rule(Sub({"path"}), "LOW"),
     Rule(Sub({"dir", "directory"}), "LOW"),
     Rule(Sub({"file"}), "LOW"),
     Rule(Sub({"cache"}), "LOW"),
     Rule(Sub({"temp"}), "LOW"),
     Rule(Sub({"timeout"}), "LOW"),
     Rule(Sub({"retry"}), "LOW"),
     Rule(Sub({"limit"}), "LOW"),
     Rule(Sub({"offset"}), "LOW") >>

SUSPICIOUS_VALUES ==
  << Rule([k |-> "run", class |-> TokenChars, min |-> CriticalValueLen], "CRITICAL"),
     Rule([k |-> "run", class |-> TokenChars, min |-> HighValueLen], "HIGH"),
     Rule([k |-> "jwt", class |-> TokenChars], "HIGH") >>

(***************************************************************************)
(* SEVERITY_RANK, maxSeverity, getSeverityFromRules (index.ts 229-252).    *)
(* undefined is the absent severity.                                       *)
(***************************************************************************)
undefined == "undefined"

Severities == {"LOW", "MEDIUM", "HIGH", "CRITICAL"}

SEVERITY_RANK ==
  [s \in Severities |->
     CASE s = "LOW" -> 1 [] s = "MEDIUM" -> 2 [] s = "HIGH" -> 3 [] s = "CRITICAL" -> 4]

\* a plausible slip: the later match overwrites the earlier one
maxSeverity_lastWins(a, b) ==
  IF b = undefined THEN a ELSE b

maxSeverity(a, b) ==
  IF a = undefined THEN b
  ELSE IF b = undefined THEN a
  ELSE IF SEVERITY_RANK[a] >= SEVERITY_RANK[b] THEN a ELSE b

\* the loop of getSeverityFromRules from rule i on, severity being the
\* value accumulated so far
RECURSIVE SeverityLoop(_, _, _, _)
SeverityLoop(target, rules, i, severity) ==
  IF i > Len(rules) THEN severity
  ELSE SeverityLoop(target, rules, i + 1,
                    IF test(rules[i].regex, target)
                    THEN maxSeverity(severity, rules[i].severity)
                    ELSE severity)

getSeverityFromRules(target, rules) == SeverityLoop(target, rules, 1, undefined)

(***************************************************************************)
(* MATCHERS (index.ts 40-89): the entries for js, ts, vue, py, sh, bash    *)
(* and npmrc.                                                              *)
(* Every regular expression is one object with the g flag, so each has a   *)
(* lastIndex of its own that lives as long as the module.  A regular       *)
(* expression is described by its shape:                                   *)
(*   decl    (const|let|var)\s+(NAME)\s*=\s*(INIT) up to ; or newline or   *)
(*           the end; the terminator is looked at (js) or consumed (ts)    *)
(*   assign  (NAME)\s*=\s*(REST OF THE LINE)                     (py)      *)
(*   export  export\s+(NAME)=(REST OF THE LINE)                  (sh)      *)
(*   envset  (NAME)=(REST OF THE LINE)                           (sh)      *)
(*   prop    (NAME)\s*:\s*(QUOTED TEXT or process.env.NAME)      (vue)     *)
(*   registry  //...:_authToken=(REST OF THE LINE), i flag       (npmrc)   *)
(*   auth    _auth\s*=\s*(REST OF THE LINE), i flag              (npmrc)   *)
(***************************************************************************)
MATCHERS ==
  [js    |-> << [shape |-> "decl", consume |-> FALSE] >>,
   ts    |-> << [shape |-> "decl", consume |-> TRUE] >>,
   vue   |-> << [shape |-> "decl", consume |-> TRUE], [shape |-> "prop"] >>,
   py    |-> << [shape |-> "assign"] >>,
   sh    |-> << [shape |-> "export"], [shape |-> "envset"] >>,
   bash  |-> << [shape |-> "export"], [shape |-> "envset"] >>,
   npmrc |-> << [shape |-> "registry"], [shape |-> "auth"] >>]

\* the other keys of MATCHERS (index.ts 55-88), whose regular expressions are
\* not described here: no scanned tree of this module holds such a file
OtherMatcherKeys ==
  {"rb", "json", "yml", "yaml", "php", "java", "kt", "go", "cs",
   "dockerfile", "yarnrc", "github", "gitlab", "circleci", "azure"}

\* a failed match, and a match: index is the position of its first character,
\* end the position of its last one (the lastIndex exec leaves), g its groups
NoMatch == [ok |-> FALSE, index |-> 0, end |-> 0, g |-> << >>]
Match(i, e, groups) == [ok |-> TRUE, index |-> i, end |-> e, g |-> groups]

DeclKeywords == {"const", "let", "var"}

\* (const|let|var)\s+([A-Za-z_$][A-Za-z0-9_$]*)\s*=\s*([\s\S]*?)(?=;|\n|$)
\* anchored at position i; with consume, the final group is (?:;|\n|$)
DeclAt(code, i, consume) ==
  LET kws == {kw \in DeclKeywords : LitAt(code, i, kw, FALSE)}
  IN  IF kws = {} THEN NoMatch
      ELSE
        LET kw == CHOOSE k \in kws : TRUE
            p1 == i + Len(kw)
            p2 == RunEnd(code, p1, SpaceChars)
            p3 == RunEnd(code, p2 + 1, JsIdentChars)
            p4 == RunEnd(code, p3, SpaceChars)
            p5 == RunEnd(code, p4 + 1, SpaceChars)
            p6 == FindCh(code, p5, {";", "\n"})
        IN  IF /\ p2 > p1
               /\ p2 <= Len(code)
               /\ Ch(code, p2) \in JsIdentStart
               /\ p4 <= Len(code)
               /\ Ch(code, p4) = "="
            THEN Match(i,
                       IF consume /\ p6 <= Len(code) THEN p6 ELSE p6 - 1,
                       <<kw, SubSeq(code, p2, p3 - 1), SubSeq(code, p5, p6 - 1)>>)
            ELSE NoMatch

\* the last position in from..to that holds no line terminator, 0 if none
RECURSIVE LastDotPos(_, _, _)
LastDotPos(code, from, to) ==
  IF to < from THEN 0
  ELSE IF to <= Len(code) /\ Ch(code, to) \notin LineTerminators THEN to
  ELSE LastDotPos(code, from, to - 1)

\* ([A-Za-z_][A-Za-z0-9_]*)\s*=\s*(['"`]?.+['"`]?) anchored at position i:
\* the second \s* is greedy and gives characters back until .+ has one
AssignAt(code, i) ==
  IF ~ (i <= Len(code) /\ Ch(code, i) \in PyIdentStart) THEN NoMatch
  ELSE
    LET p1 == RunEnd(code, i + 1, PyIdentChars)
        p2 == RunEnd(code, p1, SpaceChars)
        p3 == RunEnd(code, p2 + 1, SpaceChars)
        p  == LastDotPos(code, p2 + 1, p3)
        e  == FindCh(code, p, LineTerminators) - 1
    IN  IF p2 <= Len(code) /\ Ch(code, p2) = "=" /\ p # 0
        THEN Match(i, e, <<SubSeq(code, i, p1 - 1), SubSeq(code, p, e)>>)
        ELSE NoMatch

\* ([A-Z0-9_]+)=([^\n]+) with its first character at position n
EnvSetFrom(code, i, n) ==
  LET p3 == RunEnd(code, n, EnvNameChars)
      e  == FindCh(code, p3 + 1, {"\n"}) - 1
  IN  IF /\ p3 > n
         /\ p3 <= Len(code)
         /\ Ch(code, p3) = "="
         /\ e >= p3 + 1
      THEN Match(i, e, <<SubSeq(code, n, p3 - 1), SubSeq(code, p3 + 1, e)>>)
      ELSE NoMatch

\* export\s+([A-Z0-9_]+)=([^\n]+) anchored at position i
ExportAt(code, i) ==
  LET p1 == i + Len("export")
      p2 == RunEnd(code, p1, SpaceChars)
  IN  IF LitAt(code, i, "export", FALSE) /\ p2 > p1
      THEN EnvSetFrom(code, i, p2)
      ELSE NoMatch

\* ([A-Za-z_$][A-Za-z0-9_$]*)\s*:\s*(['"`][^'"`]+['"`]|process\.env\.[A-Z0-9_]+)
\* anchored at position i
PropAt(code, i) ==
  IF ~ (i <= Len(code) /\ Ch(code, i) \in JsIdentStart) THEN NoMatch
  ELSE
    LET p1 == RunEnd(code, i + 1, JsIdentChars)
        p2 == RunEnd(code, p1, SpaceChars)
        p3 == RunEnd(code, p2 + 1, SpaceChars)
        p4 == FindCh(code, p3 + 1, QuoteChars)
        n  == p3 + Len("process.env.")
        e  == RunEnd(code, n, EnvNameChars)
    IN  IF ~ (p2 <= Len(code) /\ Ch(code, p2) = ":") THEN NoMatch
        ELSE IF /\ p3 <= Len(code) /\ Ch(code, p3) \in QuoteChars
                /\ p4 > p3 + 1 /\ p4 <= Len(code)
             THEN Match(i, p4, <<SubSeq(code, i, p1 - 1), SubSeq(code, p3, p4)>>)
        ELSE IF LitAt(code, p3, "process.env.", FALSE) /\ e > n
             THEN Match(i, e - 1, <<SubSeq(code, i, p1 - 1), SubSeq(code, p3, e - 1)>>)
        ELSE NoMatch

\* \/\/.*:_authToken=(.+) with the i flag, anchored at position i: .* is
\* greedy, so the text taken is the last :_authToken= of the line that a
\* character follows
RegistryAt(code, i) ==
  LET eol == FindCh(code, i, LineTerminators)
      w   == ":_authToken="
      at  == {j \in (i + 2)..(eol - 1) :
                LitAt(code, j, w, TRUE) /\ j + Len(w) <= eol - 1}
  IN  IF LitAt(code, i, "//", FALSE) /\ at # {}
      THEN LET j == CHOOSE x \in at : \A y \in at : y <= x
           IN  Match(i, eol - 1, <<SubSeq(code, j + Len(w), eol - 1)>>)
      ELSE NoMatch

\* _auth\s*=\s*(.+) with the i flag, anchored at position i
AuthAt(code, i) ==
  LET p1 == i + Len("_auth")
      p2 == RunEnd(code, p1, SpaceChars)
      p3 == RunEnd(code, p2 + 1, SpaceChars)
      p  == LastDotPos(code, p2 + 1, p3)
      e  == FindCh(code, p, LineTerminators) - 1
  IN  IF /\ LitAt(code, i, "_auth", TRUE)
         /\ p2 <= Len(code) /\ Ch(code, p2) = "="
         /\ p # 0
      THEN Match(i, e, <<SubSeq(code, p, e)>>)
      ELSE NoMatch

MatchAt(regex, code, i) ==
  CASE regex.shape = "decl"     -> DeclAt(code, i, regex.consume)
    [] regex.shape = "assign"   -> AssignAt(code, i)
    [] regex.shape = "export"   -> ExportAt(code, i)
    [] regex.shape = "envset"   -> EnvSetFrom(code, i, i)
    [] regex.shape = "prop"     -> PropAt(code, i)
    [] regex.shape = "registry" -> RegistryAt(code, i)
    [] regex.shape = "auth"     -> AuthAt(code, i)

\* the matches of regex anchored at each position of code
AnchoredMatches(regex, code) == [i \in 1..Len(code) |-> MatchAt(regex, code, i)]

\* the leftmost of the anchored matches at that starts after position li
LeftmostAfter(at, li) ==
  LET ok == {j \in (li + 1)..Len(at) : at[j].ok}
  IN  IF ok = {} THEN NoMatch ELSE at[Least(ok)]

\* regex.exec(code) of a g regular expression whose lastIndex is li
exec(regex, code, li) == LeftmostAfter(AnchoredMatches(regex, code), li)

(***************************************************************************)
(* USAGE_PATTERNS (index.ts 300-304) and code.matchAll: the names captured *)
(* by all the matches of one pattern, in the order of the text.  The three *)
(* regular expressions are created for each file, so they keep no state.   *)
(***************************************************************************)
USAGE_PATTERNS == <<"process.env", "os.environ", "$">>

\* the name captured when pattern pat matches at position i, "" when it does
\* not, and the position after the match
UsageAt(pat, code, i) ==
  CASE pat = "process.env" ->
         \* /process\.env\.([A-Z0-9_]+)/g
         LET n == i + Len("process.env.")
             e == RunEnd(code, n, EnvNameChars)
         IN  IF LitAt(code, i, "process.env.", FALSE) /\ e > n
             THEN [name |-> SubSeq(code, n, e - 1), next |-> e]
             ELSE [name |-> "", next |-> i + 1]
    [] pat = "os.environ" ->
         \* /os\.environ\[['"]([A-Z0-9_]+)['"]\]/g
         LET q == i + Len("os.environ[")
             n == q + 1
             e == RunEnd(code, n, EnvNameChars)
         IN  IF /\ LitAt(code, i, "os.environ[", FALSE)
                /\ q <= Len(code) /\ Ch(code, q) \in {"'", "\""}
                /\ e > n
                /\ e <= Len(code) /\ Ch(code, e) \in {"'", "\""}
                /\ LitAt(code, e + 1, "]", FALSE)
             THEN [name |-> SubSeq(code, n, e - 1), next |-> e + 2]
             ELSE [name |-> "", next |-> i + 1]
    [] pat = "$" ->
         \* /\$([A-Z0-9_]+)/g
         LET e == RunEnd(code, i + 1, EnvNameChars)
         IN  IF LitAt(code, i, "$", FALSE) /\ e > i + 1
             THEN [name |-> SubSeq(code, i + 1, e - 1), next |-> e]
             ELSE [name |-> "", next |-> i + 1]

\* the matches are taken from left to right, each search starting where
\* the match before ended
RECURSIVE matchAll(_, _, _)
matchAll(pat, code, i) ==
  LET at == {j \in i..Len(code) : UsageAt(pat, code, j).name # ""}
  IN  IF at = {} THEN << >>
      ELSE LET u == UsageAt(pat, code, Least(at))
           IN  <<u.name>> \o matchAll(pat, code, u.next)

\* the names the usage pass hands to addUsage, in its order
UsageNames(code) ==
  matchAll(USAGE_PATTERNS[1], code, 1)
    \o matchAll(USAGE_PATTERNS[2], code, 1)
    \o matchAll(USAGE_PATTERNS[3], code, 1)

\* /(process\.env|os\.environ|\$[A-Z0-9_]+)/.test(initializer), index.ts 314
IsEnvRead(initializer) ==
  \/ Has(initializer, "process.env", FALSE)
  \/ Has(initializer, "os.environ", FALSE)
  \/ \E i \in 1..(Len(initializer) - 1) :
        Ch(initializer, i) = "$" /\ Ch(initializer, i + 1) \in EnvNameChars

(***************************************************************************)
(* The result object (index.ts 4-13, 274).  An EnvScanResult is a plain    *)
(* object: a function from its own keys to entries.  Reading a key that is *)
(* not an own key finds what Object.prototype holds under that name.       *)
(***************************************************************************)
ObjectPrototypeKeys ==
  {"constructor", "__proto__", "hasOwnProperty", "isPrototypeOf",
   "propertyIsEnumerable", "toLocaleString", "toString", "valueOf",
   "__defineGetter__", "__defineSetter__", "__lookupGetter__", "__lookupSetter__"}

EmptyResult == [k \in {} |-> [usage |-> << >>, suggested |-> << >>]]

\* result[key] ??= { usage: [], suggested: [] }: an inherited value is not
\* nullish, so nothing is assigned under a key of Object.prototype
NullishAssign(result, key) ==
  IF key \in DOMAIN result \/ key \in ObjectPrototypeKeys THEN result
  ELSE [k \in DOMAIN result \cup {key} |->
          IF k \in DOMAIN result THEN result[k]
          ELSE [usage |-> << >>, suggested |-> << >>]]

\* result[key].usage and result[key].suggested are arrays only for own keys;
\* for an inherited value they are undefined and calling a method on them
\* throws a TypeError
HasEntry(result, key) == key \in DOMAIN result

\* usage.includes(file), with the slip of leaving the test out before it,
\* and the slip of a test that is inverted
includes_never(usage, file) == FALSE

includes_inverted(usage, file) == \A i \in 1..Len(usage) : usage[i] # file

includes(usage, file) == \E i \in 1..Len(usage) : usage[i] = file

Threw(result) == [threw |-> TRUE, result |-> result]
Done(result) == [threw |-> FALSE, result |-> result]

(***************************************************************************)
(* addUsage (index.ts 257-261).                                            *)
(***************************************************************************)
addUsage(name, result, file) ==
  LET r == NullishAssign(result, name)
  IN  IF ~ HasEntry(r, name) THEN Threw(r)
      ELSE IF includes(r[name].usage, file) THEN Done(r)
      ELSE Done([r EXCEPT ![name].usage = Append(@, file)])

\* the usage pass (index.ts 305-307) over the names from the i-th on
RECURSIVE UsagePass(_, _, _, _)
UsagePass(names, i, result, file) ==
  IF i > Len(names) THEN Done(result)
  ELSE LET a == addUsage(names[i], result, file)
       IN  IF a.threw THEN a ELSE UsagePass(names, i + 1, a.result, file)

(***************************************************************************)
(* One candidate (index.ts 312-320).                                       *)
(***************************************************************************)
NameGroupExts == {"js", "ts"}

\* const key = ["js", "ts"].includes(mappedExt) ? m[2] : m[1]
KeyOf(ext, m) == IF ext \in NameGroupExts THEN m.g[2] ELSE m.g[1]

\* const initializer = (["js", "ts"].includes(mappedExt) ? m[3] : m[2])?.trim()
\* a group the regular expression does not have is undefined, and so is the
\* initializer then: falsy, as the empty string is
InitializerOf(ext, m) ==
  LET n == IF ext \in NameGroupExts THEN 3 ELSE 2
  IN  IF n <= Len(m.g) THEN trim(m.g[n]) ELSE ""

\* if (!key || (initializer && /.../.test(initializer))) continue
IsSkipped(key, initializer) ==
  key = "" \/ (initializer # "" /\ IsEnvRead(initializer))

\* const literal = initializer ? extractStringLiteral(initializer) ?? undefined
\*                             : undefined;   << >> is undefined
LiteralOf(initializer) ==
  IF initializer # "" THEN extractStringLiteral(initializer) ELSE << >>

\* the truthiness of literal: neither undefined nor the empty string
Truthy(literal) == literal # << >> /\ literal[1] # ""

\* a plausible slip: the fallback is applied without looking at the severity
\* the rules gave
candidateSeverity_fallbackFirst(key, literal) ==
  IF looksSensitiveName(key) \/ (Truthy(literal) /\ looksLikeSecretLiteral(literal[1]))
  THEN "MEDIUM"
  ELSE IF Truthy(literal)
       THEN maxSeverity(getSeverityFromRules(key, SUSPICIOUS_NAMES),
                        getSeverityFromRules(literal[1], SUSPICIOUS_VALUES))
       ELSE getSeverityFromRules(key, SUSPICIOUS_NAMES)

\* another slip: the fallback of index.ts 320 left out
candidateSeverity_noFallback(key, literal) ==
  IF Truthy(literal)
  THEN maxSeverity(getSeverityFromRules(key, SUSPICIOUS_NAMES),
                   getSeverityFromRules(literal[1], SUSPICIOUS_VALUES))
  ELSE getSeverityFromRules(key, SUSPICIOUS_NAMES)

\* index.ts 318-320
candidateSeverity(key, literal) ==
  LET s1 == getSeverityFromRules(key, SUSPICIOUS_NAMES)
      s2 == IF Truthy(literal)
            THEN maxSeverity(s1, getSeverityFromRules(literal[1], SUSPICIOUS_VALUES))
            ELSE s1
  IN  IF /\ s2 = undefined
         /\ \/ looksSensitiveName(key)
            \/ (Truthy(literal) /\ looksLikeSecretLiteral(literal[1]))
      THEN "MEDIUM"
      ELSE s2

\* if (severity) (index.ts 322), and two slips: the test left out, and a
\* test that drops the lowest severity as well
IsRecorded_always(severity) == TRUE

IsRecorded_aboveLow(severity) == severity \notin {undefined, "LOW"}

IsRecorded(severity) == severity # undefined

\* suggested.some((s) => s.file === fullPath), and two slips: the test left
\* out, and a test that does not look at the file
someFile_never(suggested, fullPath) == FALSE

someFile_any(suggested, fullPath) == suggested # << >>

someFile(suggested, fullPath) ==
  \E i \in 1..Len(suggested) : suggested[i].file = fullPath

\* a plausible slip: the Suggestion is pushed without its value
recordSuggestion_noValue(result, key, fullPath, literal, severity) ==
  LET r == NullishAssign(result, key)
  IN  IF ~ HasEntry(r, key) THEN Threw(r)
      ELSE IF someFile(r[key].suggested, fullPath) THEN Done(r)
      ELSE Done([r EXCEPT ![key].suggested =
                   Append(@, [file |-> fullPath, value |-> << >>,
                              severity |-> severity])])

\* index.ts 322-331, for a severity that passed the test of line 322
recordSuggestion(result, key, fullPath, literal, severity) ==
  LET r == NullishAssign(result, key)
  IN  IF ~ HasEntry(r, key) THEN Threw(r)
      ELSE IF someFile(r[key].suggested, fullPath) THEN Done(r)
      ELSE Done([r EXCEPT ![key].suggested =
                   Append(@, [file |-> fullPath, value |-> literal,
                              severity |-> severity])])

(***************************************************************************)
(* Merging the result of a subdirectory (index.ts 281-285).  The keys of   *)
(* nested are own keys, which NullishAssign never creates under a name of  *)
(* Object.prototype, so the merge reads no inherited value.                *)
(***************************************************************************)
\* a plausible slip: the entry of the subdirectory replaces the entry
mergeNested_replace(result, nested) ==
  [k \in DOMAIN result \cup DOMAIN nested |->
     IF k \in DOMAIN nested THEN nested[k] ELSE result[k]]

mergeNested(result, nested) ==
  [k \in DOMAIN result \cup DOMAIN nested |->
     IF k \notin DOMAIN nested THEN result[k]
     ELSE LET mine == IF k \in DOMAIN result THEN result[k]
                      ELSE [usage |-> << >>, suggested |-> << >>]
          IN  [usage     |-> mine.usage \o nested[k].usage,
               suggested |-> mine.suggested \o nested[k].suggested]]

(***************************************************************************)
(* Directory entries (index.ts 15, 275-295).                               *)
(***************************************************************************)
\* a plausible slip: only the dependency cache is skipped
IGNORE_DIRS_depsOnly == {"node_modules"}

IGNORE_DIRS == {"node_modules", ".git", "dist", "build", ".next"}

\* path.join(dir, entry.name)
join(dir, name) == dir \o "/" \o name

\* position of the last "." of name, 0 if there is none
RECURSIVE LastDot(_, _)
LastDot(name, i) ==
  IF i < 1 THEN 0 ELSE IF Ch(name, i) = "." THEN i ELSE LastDot(name, i - 1)

\* entry.name.match(/\.(\w+)$/)?.[1]?.toLowerCase(); << >> is undefined
extOf(name) ==
  LET d == LastDot(name, Len(name))
      e == SubSeq(name, d + 1, Len(name))
  IN  IF d # 0 /\ e # "" /\ AllIn(e, WordChars) THEN <<toLowerCase(e)>> ELSE << >>

\* ext === "jsx" ? "js" : ext === "tsx" ? "ts" : ext
mappedExt(ext) == IF ext = "jsx" THEN "js" ELSE IF ext = "tsx" THEN "ts" ELSE ext

\* MATCHERS[mappedExt] is truthy (index.ts 293): MATCHERS is a plain object, so
\* the lookup finds its own keys and what Object.prototype holds
HasMatcher(ext) ==
  ext \in DOMAIN MATCHERS \cup OtherMatcherKeys \cup ObjectPrototypeKeys

(***************************************************************************)
(* The scanned trees.  A tree gives the entries of each directory and the  *)
(* text of each file; the order in which readdirSync lists a directory is  *)
(* a permutation of its entries.  The root r holds a.js, the directory lib *)
(* and a third entry (an ignored directory, or a file no matcher takes);   *)
(* lib holds a file named a.js too and a second source file.               *)
(***************************************************************************)
Root == "r"

File(name) == [name |-> name, isDirectory |-> FALSE]
Dir(name) == [name |-> name, isDirectory |-> TRUE]

TwentyA == "AAAAAAAAAAAAAAAAAAAA"

\* two declarations of one name in one file, the second with a literal that
\* a value rule rates higher than the name
JsTwoSites == "const dbHost = \"x\";\nconst dbHost = \"" \o TwentyA \o "\";"

\* an initializer that is process.env.NAME, and dbHost rated by its literal
JsEnvDot == "const token = process.env.AUTH_TOKEN;\nlet dbHost = \"" \o TwentyA \o "\""

\* an initializer that reads process.env by index, a comment, an empty
\* literal under a sensitive name, and a literal only the heuristic flags
JsEnvIndex ==
  "var token = process.env[\"A_KEY\"]; // t\nlet pwd = \"\"\nconst k = \"AAAAAAAAAAAAAAAAAAA+\""

\* a declared name that Object.prototype holds, between two other sites
JsProtoName == "const port = 1;\nconst toString = \"a.b.c\";\nvar dbHost = \"x\""

\* one site matched by both sh patterns, and an assignment from $NAME
ShExport == "export API_KEY=abc\nDB_HOST=$DB_HOST"

\* two reads of one variable in one file
ShTwoReads == "export TOKEN=$AUTH_TOKEN\necho $AUTH_TOKEN"

PyIndex == "token = os.environ['AUTH_TOKEN']\ndbHost = 'x'"

PyGet == "token = os.environ.get('AUTH_TOKEN')\ncolorTheme = 'dark'"

RootJsTexts == {JsTwoSites, JsEnvDot, JsEnvIndex, JsProtoName}

LibJsTexts == {JsTwoSites, JsEnvDot, JsProtoName}

\* the second file of lib, and the third entry of the root that goes with it
SecondFiles ==
  { [name |-> "run.sh", text |-> ShExport,   other |-> Dir("node_modules")],
    [name |-> "run.sh", text |-> ShTwoReads, other |-> File("Makefile")],
    [name |-> "env.py", text |-> PyIndex,    other |-> File("notes.txt")],
    [name |-> "env.py", text |-> PyGet,      other |-> Dir("node_modules")],
    [name |-> "b.TSX",  text |-> JsEnvDot,   other |-> File("Makefile")] }

LibDir == join(Root, "lib")
DepsDir == join(Root, "node_modules")

Tree(rootJs, libJs, second) ==
  [dirs |->
     [d \in {Root, LibDir, DepsDir} |->
        CASE d = Root    -> <<File("a.js"), Dir("lib"), second.other>>
          [] d = LibDir  -> <<File("a.js"), File(second.name)>>
          [] d = DepsDir -> <<File("x.js")>>],
   files |->
     [f \in {join(Root, "a.js"), join(LibDir, "a.js"), join(LibDir, second.name),
             join(Root, "Makefile"), join(Root, "notes.txt"),
             join(DepsDir, "x.js")} |->
        CASE f = join(Root, "a.js")         -> rootJs
          [] f = join(LibDir, "a.js")       -> libJs
          [] f = join(LibDir, second.name)  -> second.text
          [] f = join(DepsDir, "x.js")      -> JsTwoSites
          [] OTHER                          -> "API_KEY=abc"]]

Trees ==
  { Tree(rootJs, libJs, second) :
      rootJs \in RootJsTexts, libJs \in LibJsTexts, second \in SecondFiles }

\* the orders in which a directory can be listed
ListingOrders(entries) ==
  LET n == Len(entries)
  IN  { [i \in 1..n |-> entries[p[i]]] :
          p \in {q \in [1..n -> 1..n] : \A i, j \in 1..n : q[i] = q[j] => i = j} }

\* one listing order for every directory of a tree
Listings(t) ==
  { [d \in DOMAIN t.dirs |->
       CASE d = Root   -> a
         [] d = LibDir -> b
         [] OTHER      -> t.dirs[d]] :
      a \in ListingOrders(t.dirs[Root]), b \in ListingOrders(t.dirs[LibDir]) }

(***************************************************************************)
(* A second family of trees, for what one file contributes: the root r     *)
(* holds one file and the directory lib, lib holds one file and the        *)
(* directory build, which holds a source file.  Each of the two files is   *)
(* drawn from SingleFiles.                                                 *)
(***************************************************************************)
RECURSIVE Repeat(_, _)
Repeat(c, n) == IF n = 0 THEN "" ELSE c \o Repeat(c, n - 1)

\* a declaration whose literal is a URL
JsDbUrl == "const dbUrl = \"https://api.example.com/db\";"

\* colorTheme with the literal dark, and a declaration no rule rates
JsColorTheme == "const colorTheme = \"dark\";\nconst n = 1;"

\* apiKey with the literal sk_live_ followed by n opaque characters
JsApiKey(n) == "const apiKey = \"sk_live_" \o Repeat("a", n - 1) \o "7\";"

\* the numbers of opaque characters tried: 32 and one more
OpaqueLengths == {32, 33}

\* userRegion with a literal, a rated name whose initializer is no literal,
\* and a read of the environment
JsUserRegion ==
  "const userRegion = \"us-east-1\";\nlet dbPort = 5432;\nlet h = process.env.HOME"

\* an environment file, and a script that reads the environment
EnvFile == "API_KEY=abc\nHOST=$HOME"

SingleFiles ==
  { [name |-> "u.js", text |-> JsDbUrl],
    [name |-> "c.jsx", text |-> JsColorTheme],
    [name |-> "g.JS", text |-> JsUserRegion],
    [name |-> ".env", text |-> EnvFile],
    [name |-> "run.constructor", text |-> EnvFile],
    [name |-> "notes.txt", text |-> EnvFile],
    [name |-> "Makefile", text |-> EnvFile] }
    \cup { [name |-> "k.ts", text |-> JsApiKey(n)] : n \in OpaqueLengths }

BuildDir == join(LibDir, "build")

SmallTree(first, second) ==
  [dirs |->
     [d \in {Root, LibDir, BuildDir} |->
        CASE d = Root     -> <<File(first.name), Dir("lib")>>
          [] d = LibDir   -> <<File(second.name), Dir("build")>>
          [] d = BuildDir -> <<File("x.js")>>],
   files |->
     [f \in {join(Root, first.name), join(LibDir, second.name),
             join(BuildDir, "x.js")} |->
        CASE f = join(Root, first.name)    -> first.text
          [] f = join(LibDir, second.name) -> second.text
          [] OTHER                         -> JsTwoSites]]

SmallTrees == { SmallTree(first, second) : first \in SingleFiles, second \in SingleFiles }

(***************************************************************************)
(* A third family, of the same form: the file of the root is a Vue         *)
(* component, an .npmrc or a file no matcher takes, and one of the two     *)
(* files may be listed by its directory and yet not be readable (a file    *)
(* without read permission, or removed after readdirSync listed it): such  *)
(* a file has no text in files.                                            *)
(***************************************************************************)
\* a component with a template, a declaration, and a property whose value
\* has a style section inside
VueSecret ==
  "<template>{{ t }}</template>\nconst apiToken = \"abc\";\n"
    \o "export default { dbUrl: \"http:/<style></style>/x.io\" }"

\* a registry line with its token, and a credential
NpmrcAuth == "//registry.npmjs.org/:_authToken=npm_abc\n_auth = mySecretToken"

MixedFirst ==
  { [name |-> "App.vue", text |-> VueSecret],
    [name |-> ".npmrc", text |-> NpmrcAuth],
    [name |-> "Makefile", text |-> EnvFile],
    [name |-> "notes.txt", text |-> EnvFile] }

MixedSecond ==
  { [name |-> "g.JS", text |-> JsUserRegion],
    [name |-> "k.ts", text |-> JsApiKey(32)],
    [name |-> "u.js", text |-> JsDbUrl] }

\* tree t with the files of paths not readable
Unreadable(t, paths) ==
  [dirs |-> t.dirs, files |-> [f \in DOMAIN t.files \ paths |-> t.files[f]]]

MixedTrees ==
  UNION { { Unreadable(SmallTree(first, second), paths) :
              paths \in {{}, {join(Root, first.name)}, {join(LibDir, second.name)}} } :
          first \in MixedFirst, second \in MixedSecond }

(***************************************************************************)
(* Tables of the values the scan computes from the texts of Trees, each    *)
(* computed once: the stripped text of every file, the names of its usage  *)
(* pass, what exec returns for every regular expression and lastIndex, and *)
(* the severity of every candidate.                                        *)
(***************************************************************************)
\* a function given as the table of its values (combining it with the empty
\* function makes the checker enumerate it, once)
Tabulated(f) == f @@ << >>

\* the element of a set of one element
Only(S) == CHOOSE x \in S : TRUE

AllTexts ==
  UNION {{t.files[f] : f \in DOMAIN t.files} : t \in Trees \cup SmallTrees \cup MixedTrees}

StrippedOf == Tabulated([text \in AllTexts |-> stripComments(text)])

\* the text the two passes of a file work on (index.ts 296-297)
CodeOf(ext, text) ==
  IF ext = "vue" THEN stripVueSections(StrippedOf[text]) ELSE StrippedOf[text]

AllCodes == {CodeOf(ext, text) : ext \in {"js", "vue"}, text \in AllTexts}

UsageOf == Tabulated([code \in AllCodes |-> UsageNames(code)])

AllRegexes == UNION {{MATCHERS[e][i] : i \in 1..Len(MATCHERS[e])} : e \in DOMAIN MATCHERS}

\* exec(regex, code, li) for every lastIndex li
ExecTable(regex, code) ==
  Only({ Tabulated([li \in 0..Len(code) |-> LeftmostAfter(at, li)]) :
         at \in {Tabulated(AnchoredMatches(regex, code))} })

ExecOf ==
  Tabulated([regex \in AllRegexes |->
               Tabulated([code \in AllCodes |-> ExecTable(regex, code)])])

\* the key and the literal of every match of every regular expression
CandidatesOf(e, regex) ==
  UNION { { <<KeyOf(e, ExecOf[regex][code][li]),
              LiteralOf(InitializerOf(e, ExecOf[regex][code][li]))>> :
            li \in {l \in 0..Len(code) : ExecOf[regex][code][l].ok} } :
          code \in AllCodes }

AllCandidates ==
  UNION { UNION { CandidatesOf(e, MATCHERS[e][i]) : i \in 1..Len(MATCHERS[e]) } :
          e \in DOMAIN MATCHERS }

SeverityOf == Tabulated([c \in AllCandidates |-> candidateSeverity(c[1], c[2])])

(***************************************************************************)
(* The state.                                                              *)
(*   tree       the scanned tree (never changed by a scan)                 *)
(*   listing    the order readdirSync lists each directory in, for the     *)
(*              odd and for the even calls                                 *)
(*   calls      the number of calls of scanForEnv(Root) made so far        *)
(*   outcomes   what each finished call returned, or that it threw         *)
(*   stack      the activations of scanForEnv, the innermost last: its     *)
(*              directory, the entries still to visit and its result       *)
(*   cur        the file whose candidate pass is running, with the index   *)
(*              ri of the regular expression of MATCHERS[ext] in use       *)
(*   lastIndex  the lastIndex of every regular expression of MATCHERS      *)
(*   cand       the locals of the last iteration of the candidate loop,    *)
(*              with the shape of its regular expression and the groups m  *)
(*              of its match                                               *)
(*   args, ret  the arguments and the result of a function applied alone   *)
(* and, for the command line of src/src/cli.ts:                            *)
(*   scanConfig the configuration, as loaded from and saved to             *)
(*              .envscanconfig.json                                        *)
(*   envFile    the env file of --to-env: << >> while it does not exist,   *)
(*              else its content                                           *)
(*   report     what the last scan listed and appended                     *)
(*   history    the commands run so far: the last one, the answer typed    *)
(*              when it asked, whether the one before it was the same, the *)
(*              configuration before it, and for every variable name the   *)
(*              last command that named it                                 *)
(***************************************************************************)
VARIABLES tree, listing, calls, outcomes, stack, cur, lastIndex, cand, args, ret,
          scanConfig, envFile, report, history

cliVars == <<scanConfig, envFile, report, history>>

vars == <<tree, listing, calls, outcomes, stack, cur, lastIndex, cand, args, ret, cliVars>>

MaxCalls == 2

NoFile == [open |-> FALSE, path |-> "", ext |-> "", code |-> "", ri |-> 0]

NoCand ==
  [live |-> FALSE, file |-> "", shape |-> "", m |-> << >>, key |-> "",
   initializer |-> "", skipped |-> FALSE, literal |-> << >>, severity |-> undefined,
   threw |-> FALSE]

NoArgs == [target |-> "", rules |-> << >>]
NoRet == [done |-> FALSE, value |-> undefined]

\* let scanConfig = { ignore: { variables: [], files: [] } } (cli.ts 94)
DefaultConfig ==
  [ignore |-> [variables |-> << >>, files |-> << >>], priority |-> undefined]

NoReport == [existing |-> << >>, suggestions |-> << >>, appended |-> ""]

NoHistory ==
  [last |-> "", answer |-> "", repeated |-> FALSE, before |-> DefaultConfig,
   named |-> << >>]

\* no command has been run
NoCommand ==
  /\ scanConfig = DefaultConfig
  /\ envFile = << >>
  /\ report = NoReport
  /\ history = NoHistory

ZeroLastIndex == [e \in DOMAIN MATCHERS |-> [i \in 1..Len(MATCHERS[e]) |-> 0]]

Canonical(t) == [d \in DOMAIN t.dirs |-> t.dirs[d]]

\* fs.readdirSync(dir, { withFileTypes: true }) during the current call
readdirSync(dir) == listing[((calls - 1) % 2) + 1][dir]

\* fs.readFileSync(fullPath, "utf-8"), which throws when the file cannot be
\* read
CanRead(fullPath) == fullPath \in DOMAIN tree.files

readFileSync(fullPath) == tree.files[fullPath]

Frame(dir, entries) == [dir |-> dir, entries |-> entries, result |-> EmptyResult]

Top == stack[Len(stack)]

\* the innermost activation with its first entry taken off and its result
\* replaced
Advance(result) ==
  [stack EXCEPT ![Len(stack)] =
     [dir |-> Top.dir, entries |-> Tail(Top.entries), result |-> result]]

AtEntry == stack # << >> /\ ~ cur.open /\ Top.entries # << >>

Entry == Head(Top.entries)

Init ==
  /\ tree \in Trees
  /\ \E l1 \in Listings(tree) :
        \E l2 \in {l1, Canonical(tree)} : listing = <<l1, l2>>
  /\ calls = 0
  /\ outcomes = << >>
  /\ stack = << >>
  /\ cur = NoFile
  /\ lastIndex = ZeroLastIndex
  /\ cand = NoCand
  /\ args = NoArgs
  /\ ret = NoRet
  /\ NoCommand

\* a caller calls scanForEnv(Root) (index.ts 273-275)
Call ==
  /\ stack = << >>
  /\ calls < MaxCalls
  /\ calls' = calls + 1
  /\ stack' = << Frame(Root, listing[(calls % 2) + 1][Root]) >>
  /\ cand' = NoCand
  /\ UNCHANGED <<tree, listing, outcomes, cur, lastIndex, args, ret, cliVars>>

\* an entry that is a directory of IGNORE_DIRS (index.ts 278-279)
IgnoreDir ==
  /\ AtEntry
  /\ Entry.isDirectory
  /\ Entry.name \in IGNORE_DIRS
  /\ stack' = Advance(Top.result)
  /\ cand' = NoCand
  /\ UNCHANGED <<tree, listing, calls, outcomes, cur, lastIndex, args, ret, cliVars>>

\* an entry that is any other directory: the recursive call (index.ts 280)
VisitDir ==
  /\ AtEntry
  /\ Entry.isDirectory
  /\ Entry.name \notin IGNORE_DIRS
  /\ LET sub == join(Top.dir, Entry.name)
     IN  stack' = Append(Advance(Top.result), Frame(sub, readdirSync(sub)))
  /\ cand' = NoCand
  /\ UNCHANGED <<tree, listing, calls, outcomes, cur, lastIndex, args, ret, cliVars>>

\* a file whose name has no extension (index.ts 289-290)
SkipNoExtension ==
  /\ AtEntry
  /\ ~ Entry.isDirectory
  /\ extOf(Entry.name) = << >>
  /\ stack' = Advance(Top.result)
  /\ cand' = NoCand
  /\ UNCHANGED <<tree, listing, calls, outcomes, cur, lastIndex, args, ret, cliVars>>

\* a file whose extension has no matcher (index.ts 292-293)
SkipNoMatcher ==
  /\ AtEntry
  /\ ~ Entry.isDirectory
  /\ extOf(Entry.name) # << >>
  /\ ~ HasMatcher(mappedExt(extOf(Entry.name)[1]))
  /\ stack' = Advance(Top.result)
  /\ cand' = NoCand
  /\ UNCHANGED <<tree, listing, calls, outcomes, cur, lastIndex, args, ret, cliVars>>

\* the exception leaves every activation and reaches the caller
Abort ==
  /\ stack' = << >>
  /\ cur' = NoFile
  /\ outcomes' = Append(outcomes, [call |-> calls, status |-> "threw",
                                   result |-> EmptyResult])

\* a file with a matcher is read, stripped of its comments, and its usage
\* pass runs (index.ts 295-307); then the candidate pass starts.  Nothing
\* catches what readFileSync throws.  When the matcher is a value inherited
\* from Object.prototype, for...of over it (index.ts 310) throws a TypeError
OpenFile ==
  /\ AtEntry
  /\ ~ Entry.isDirectory
  /\ extOf(Entry.name) # << >>
  /\ HasMatcher(mappedExt(extOf(Entry.name)[1]))
  /\ mappedExt(extOf(Entry.name)[1]) \notin OtherMatcherKeys
  /\ LET ext == mappedExt(extOf(Entry.name)[1])
         fullPath == join(Top.dir, Entry.name)
         code == CodeOf(ext, readFileSync(fullPath))
         u == UsagePass(UsageOf[code], 1, Top.result, fullPath)
     IN  IF ~ CanRead(fullPath) \/ u.threw \/ ext \notin DOMAIN MATCHERS
         THEN Abort
         ELSE /\ stack' = Advance(u.result)
              /\ cur' = [open |-> TRUE, path |-> fullPath, ext |-> ext,
                         code |-> code, ri |-> 1]
              /\ UNCHANGED outcomes
  /\ cand' = NoCand
  /\ UNCHANGED <<tree, listing, calls, lastIndex, args, ret, cliVars>>

CurRegex == MATCHERS[cur.ext][cur.ri]

\* regex.exec(code): with a lastIndex beyond the end of code the match fails
CurMatch ==
  LET li == lastIndex[cur.ext][cur.ri]
  IN  IF li > Len(cur.code) THEN NoMatch ELSE ExecOf[CurRegex][cur.code][li]

\* the result of the innermost activation replaced, no entry taken off
WithResult(result) == [stack EXCEPT ![Len(stack)].result = result]

\* regex.exec(code) finds a match: one iteration of the candidate loop
\* (index.ts 311-332)
ExecMatch ==
  /\ cur.open
  /\ CurMatch.ok
  /\ \E m \in {CurMatch} :
     \E key \in {KeyOf(cur.ext, m)} :
     \E initializer \in {InitializerOf(cur.ext, m)} :
     \E skipped \in {IsSkipped(key, initializer)} :
     \E literal \in {LiteralOf(initializer)} :
     \E severity \in {SeverityOf[<<key, literal>>]} :
       LET rec == recordSuggestion(Top.result, key, cur.path, literal, severity)
           locals == [live |-> TRUE, file |-> cur.path, shape |-> CurRegex.shape,
                      m |-> m.g, key |-> key,
                      initializer |-> initializer, skipped |-> skipped,
                      literal |-> IF skipped THEN << >> ELSE literal,
                      severity |-> IF skipped THEN undefined ELSE severity,
                      threw |-> FALSE]
       IN  /\ lastIndex' = [lastIndex EXCEPT ![cur.ext][cur.ri] = m.end]
           /\ IF skipped \/ ~ IsRecorded(severity)
              THEN /\ cand' = locals
                   /\ UNCHANGED <<stack, cur, outcomes>>
              ELSE IF rec.threw
              THEN /\ cand' = [locals EXCEPT !.threw = TRUE]
                   /\ Abort
              ELSE /\ cand' = locals
                   /\ stack' = WithResult(rec.result)
                   /\ UNCHANGED <<cur, outcomes>>
  /\ UNCHANGED <<tree, listing, calls, args, ret, cliVars>>

\* the lastIndex a g regular expression has after exec found no match, and
\* the slip of a loop that is left with the lastIndex it had
lastIndexAfterNull_kept(li) == li

lastIndexAfterNull(li) == 0

\* regex.exec(code) finds no match: the loop over this regular expression
\* ends, the next one starts or the file is done (index.ts 310-311, 333)
ExecNull ==
  /\ cur.open
  /\ ~ CurMatch.ok
  /\ lastIndex' = [lastIndex EXCEPT ![cur.ext][cur.ri] = lastIndexAfterNull(@)]
  /\ cur' = IF cur.ri < Len(MATCHERS[cur.ext])
            THEN [cur EXCEPT !.ri = cur.ri + 1]
            ELSE NoFile
  /\ cand' = NoCand
  /\ UNCHANGED <<tree, listing, calls, outcomes, stack, args, ret, cliVars>>

\* no entry is left: the activation returns its result (index.ts 336); the
\* caller is the activation of the parent directory, which merges it
\* (index.ts 281-286), or the caller of scanForEnv(Root)
Return ==
  /\ stack # << >>
  /\ ~ cur.open
  /\ Top.entries = << >>
  /\ IF Len(stack) > 1
     THEN /\ stack' = [SubSeq(stack, 1, Len(stack) - 1) EXCEPT
                         ![Len(stack) - 1].result = mergeNested(@, Top.result)]
          /\ UNCHANGED outcomes
     ELSE /\ stack' = << >>
          /\ outcomes' = Append(outcomes, [call |-> calls, status |-> "returned",
                                           result |-> Top.result])
  /\ cand' = NoCand
  /\ UNCHANGED <<tree, listing, calls, cur, lastIndex, args, ret, cliVars>>

Next ==
  \/ Call
  \/ IgnoreDir
  \/ VisitDir
  \/ SkipNoExtension
  \/ SkipNoMatcher
  \/ OpenFile
  \/ ExecMatch
  \/ ExecNull
  \/ Return

Spec == Init /\ [][Next]_vars

(***************************************************************************)
(* The walk over the trees of SmallTrees.                                  *)
(***************************************************************************)
InitFiles ==
  /\ tree \in SmallTrees
  /\ \E l1 \in Listings(tree) :
        \E l2 \in {l1, Canonical(tree)} : listing = <<l1, l2>>
  /\ calls = 0
  /\ outcomes = << >>
  /\ stack = << >>
  /\ cur = NoFile
  /\ lastIndex = ZeroLastIndex
  /\ cand = NoCand
  /\ args = NoArgs
  /\ ret = NoRet
  /\ NoCommand

SpecFiles == InitFiles /\ [][Next]_vars

(***************************************************************************)
(* The walk over the trees of MixedTrees.                                  *)
(***************************************************************************)
InitMixed ==
  /\ tree \in MixedTrees
  /\ \E l1 \in Listings(tree) :
        \E l2 \in {l1, Canonical(tree)} : listing = <<l1, l2>>
  /\ calls = 0
  /\ outcomes = << >>
  /\ stack = << >>
  /\ cur = NoFile
  /\ lastIndex = ZeroLastIndex
  /\ cand = NoCand
  /\ args = NoArgs
  /\ ret = NoRet
  /\ NoCommand

SpecMixed == InitMixed /\ [][Next]_vars

(***************************************************************************)
(* getSeverityFromRules applied alone: a second specification, whose       *)
(* initial states draw the target and the list of rules, and whose one     *)
(* action applies the function.  The lists are the two rule tables and     *)
(* every list of at most MaxRules rules of RulePool.                       *)
(***************************************************************************)
MaxRules == 3

Targets == {"API_KEY", "apiToken", "colorTheme", "dbHost", "x",
            "AAAAAAAAAAAAAAAAAAAA", "a.b.c"}

\* the rules of both tables that match a target
RulePool ==
  { r \in {SUSPICIOUS_NAMES[i] : i \in 1..Len(SUSPICIOUS_NAMES)}
            \cup {SUSPICIOUS_VALUES[i] : i \in 1..Len(SUSPICIOUS_VALUES)} :
      \E t \in Targets : test(r.regex, t) }

RuleLists ==
  UNION {[1..n -> RulePool] : n \in 0..MaxRules} \cup {SUSPICIOUS_NAMES, SUSPICIOUS_VALUES}

InitRules ==
  /\ tree = Tree(JsEnvDot, JsEnvDot, CHOOSE f \in SecondFiles : f.text = ShExport)
  /\ listing = <<Canonical(tree), Canonical(tree)>>
  /\ calls = 0
  /\ outcomes = << >>
  /\ stack = << >>
  /\ cur = NoFile
  /\ lastIndex = ZeroLastIndex
  /\ cand = NoCand
  /\ args \in [target : Targets, rules : RuleLists]
  /\ ret = NoRet
  /\ NoCommand

\* getSeverityFromRules(target, rules) is called and returns
Classify ==
  /\ ~ ret.done
  /\ ret' = [done |-> TRUE, value |-> getSeverityFromRules(args.target, args.rules)]
  /\ UNCHANGED <<tree, listing, calls, outcomes, stack, cur, lastIndex, cand, args, cliVars>>

NextRules == Classify

SpecRules == InitRules /\ [][NextRules]_vars

(***************************************************************************)
(* extractStringLiteral applied alone: the fragments are the               *)
(* concatenations of at most MaxPieces pieces of source text.              *)
(***************************************************************************)
MaxPieces == 3

Pieces == {"\"a\"", "'b'", "\"", "'", " + ", "x", "1", "true", "f(", ")", " "}

RECURSIVE Concat(_)
Concat(ps) == IF ps = << >> THEN "" ELSE Head(ps) \o Concat(Tail(ps))

Fragments == {Concat(ps) : ps \in UNION {[1..n -> Pieces] : n \in 0..MaxPieces}}

InitLiteral ==
  /\ tree = Tree(JsEnvDot, JsEnvDot, CHOOSE f \in SecondFiles : f.text = ShExport)
  /\ listing = <<Canonical(tree), Canonical(tree)>>
  /\ calls = 0
  /\ outcomes = << >>
  /\ stack = << >>
  /\ cur = NoFile
  /\ lastIndex = ZeroLastIndex
  /\ cand = NoCand
  /\ args \in [target : Fragments, rules : {<< >>}]
  /\ ret = NoRet
  /\ NoCommand

\* extractStringLiteral(raw) is called and returns; << >> is null
Extract ==
  /\ ~ ret.done
  /\ ret' = [done |-> TRUE, value |-> extractStringLiteral(args.target)]
  /\ UNCHANGED <<tree, listing, calls, outcomes, stack, cur, lastIndex, cand, args, cliVars>>

SpecLiteral == InitLiteral /\ [][Extract]_vars

(***************************************************************************)
(* Views of the state that the properties are stated on.                   *)
(***************************************************************************)
\* the calls of scanForEnv(Root) that returned
Returned == {i \in 1..Len(outcomes) : outcomes[i].status = "returned"}

\* every result object: of an activation in progress and of a finished call
Accumulators ==
  {stack[i].result : i \in 1..Len(stack)} \cup {outcomes[i].result : i \in Returned}

NoDuplicates(seq) == \A i, j \in 1..Len(seq) : seq[i] = seq[j] => i = j

Range(seq) == {seq[i] : i \in 1..Len(seq)}

\* the Suggestions of result[k] whose file is f
SuggestionsIn(result, k, f) ==
  IF k \in DOMAIN result
  THEN {i \in 1..Len(result[k].suggested) : result[k].suggested[i].file = f}
  ELSE {}

\* a ScanResult with its lists read as sets
AsSets(result) ==
  [k \in DOMAIN result |->
     [usage |-> Range(result[k].usage), suggested |-> Range(result[k].suggested)]]

\* the listing order a call used
ListingOf(call) == listing[((call - 1) % 2) + 1]

RankOf(severity) == IF severity = undefined THEN 0 ELSE SEVERITY_RANK[severity]

Highest(ranks) == CHOOSE x \in ranks : \A y \in ranks : y <= x

\* the overall severity of identifier k in a result, as a rank; 0 if k has
\* no Suggestion
OverallSeverity(result, k) ==
  IF k \in DOMAIN result
  THEN Highest({0} \cup {SEVERITY_RANK[s.severity] : s \in Range(result[k].suggested)})
  ELSE 0

NotLowered(before, after) ==
  \A k \in DOMAIN before : OverallSeverity(after, k) >= OverallSeverity(before, k)

\* one of the two heuristics of index.ts 94-148 fires
Heuristic(key, literal) ==
  \/ looksSensitiveName(key)
  \/ literal # << >> /\ looksLikeSecretLiteral(literal[1])

\* the candidate of the last iteration got past the skip test of index.ts 314
Processed == cand.live /\ ~ cand.skipped

(***************************************************************************)
(* Properties of the walk.                                                 *)
(***************************************************************************)

\* C1: in every result object (of a finished call and of every activation,
\* before and after merges), for every identifier k and every file f, the
\* list result[k].suggested holds at most one Suggestion whose file is f.
C1_OneSuggestionPerFile ==
  \A r \in Accumulators :
    \A k \in DOMAIN r :
      \A i, j \in 1..Len(r[k].suggested) :
        r[k].suggested[i].file = r[k].suggested[j].file => i = j

\* a call returned a result in which dbHost, declared at two sites of one
\* file, has the Suggestion of that file and one merged from another directory
C1_Witness ==
  \E c \in Returned :
    LET r == outcomes[c].result
    IN  /\ "dbHost" \in DOMAIN r
        /\ Len(r["dbHost"].suggested) >= 2
        /\ \E s \in Range(r["dbHost"].suggested) : tree.files[s.file] = JsTwoSites
        /\ \E s \in Range(r["dbHost"].suggested) : s.file = join(LibDir, "a.js")

\* C2: in every result object, for every identifier k, no file path occurs
\* twice in result[k].usage.
C2_UsageHasNoDuplicates ==
  \A r \in Accumulators : \A k \in DOMAIN r : NoDuplicates(r[k].usage)

\* a call returned a result in which AUTH_TOKEN, read twice in one file, has
\* that file in its usage next to a file of the parent directory
C2_Witness ==
  \E c \in Returned :
    LET r == outcomes[c].result
    IN  /\ "AUTH_TOKEN" \in DOMAIN r
        /\ Len(r["AUTH_TOKEN"].usage) >= 2
        /\ \E f \in Range(r["AUTH_TOKEN"].usage) : tree.files[f] = ShTwoReads
        /\ join(Root, "a.js") \in Range(r["AUTH_TOKEN"].usage)

\* C3 as the specification states it: any two calls that return, whatever
\* the order each listed the directories in, return the same keys with the
\* same usage list and the same suggested list.
C3_IdenticalWhateverTheOrder ==
  \A c, d \in Returned : outcomes[c].result = outcomes[d].result

\* C3: any two calls that return, whatever the order each listed the
\* directories in, return the same keys and, for each key, the same set of
\* usage paths and the same set of Suggestions (file, value, severity); the
\* order of the two lists follows the order of the visit.
C3_SameSetsWhateverTheOrder ==
  \A c, d \in Returned : AsSets(outcomes[c].result) = AsSets(outcomes[d].result)

\* two calls listed the directories in different orders and returned lists
\* in different orders
C3_Witness ==
  \E c, d \in Returned :
    /\ ListingOf(outcomes[c].call) # ListingOf(outcomes[d].call)
    /\ outcomes[c].result # outcomes[d].result
    /\ \E k \in DOMAIN outcomes[c].result : Len(outcomes[c].result[k].suggested) >= 2

C5_EnvReadIsUsageOnly ==
  (cand.live /\ cand.key # "" /\ cand.initializer # "" /\ IsEnvRead(cand.initializer))
    => /\ SuggestionsIn(Top.result, cand.key, cand.file) = {}
       /\ \E k \in DOMAIN Top.result :
            /\ Has(cand.initializer, k, FALSE)
            /\ cand.file \in Range(Top.result[k].usage)

\* C6 as the specification states it: once a candidate with a severity has
\* been processed, the Suggestion of its name for its file has a severity at
\* least as high as the candidate's.
C6_PerFileSeverityIsMaximum ==
  (Processed /\ cand.severity # undefined /\ ~ cand.threw)
    => \E i \in SuggestionsIn(Top.result, cand.key, cand.file) :
         SEVERITY_RANK[Top.result[cand.key].suggested[i].severity]
           >= SEVERITY_RANK[cand.severity]

\* C7 as the specification states it: every candidate whose name or whose
\* extracted literal trips a heuristic has a Suggestion for its file.
C7_HeuristicHitIsSurfaced ==
  (cand.live /\ cand.key # "" /\ Heuristic(cand.key, LiteralOf(cand.initializer)))
    => /\ stack # << >>
       /\ SuggestionsIn(Top.result, cand.key, cand.file) # {}

\* C7: every candidate that passes the skip test (a name, and an initializer
\* that is no environment read) and whose name or extracted literal trips a
\* heuristic gets a severity, and its name then has a Suggestion for the
\* file, unless the name is a property of Object.prototype, for which
\* recording the Suggestion throws.
C7_ProcessedHeuristicHitIsSurfaced ==
  (Processed /\ Heuristic(cand.key, cand.literal))
    => /\ cand.severity # undefined
       /\ IF cand.key \in ObjectPrototypeKeys
          THEN cand.threw
          ELSE SuggestionsIn(Top.result, cand.key, cand.file) # {}

\* a candidate that no rule matches and that the name heuristic flags has
\* been recorded
C7_Witness ==
  /\ Processed
  /\ looksSensitiveName(cand.key)
  /\ getSeverityFromRules(cand.key, SUSPICIOUS_NAMES) = undefined
  /\ cand.literal # << >>
  /\ getSeverityFromRules(cand.literal[1], SUSPICIOUS_VALUES) = undefined
  /\ SuggestionsIn(Top.result, cand.key, cand.file) # {}

\* C8: getSeverityFromRules(target, rules) returns undefined when no rule of
\* the list matches target, and otherwise the severity of a matching rule
\* that no matching rule exceeds, wherever those rules stand in the list.
C8_HighestMatchingSeverity ==
  ret.done =>
    LET matching == {i \in 1..Len(args.rules) : test(args.rules[i].regex, args.target)}
    IN  IF matching = {}
        THEN ret.value = undefined
        ELSE /\ ret.value \in {args.rules[i].severity : i \in matching}
             /\ \A i \in matching :
                  SEVERITY_RANK[ret.value] >= SEVERITY_RANK[args.rules[i].severity]

\* the function returned the severity of a rule that stands between two
\* matching rules of lower severity
C8_Witness ==
  /\ ret.done
  /\ Len(args.rules) = MaxRules
  /\ \E i, j, k \in 1..Len(args.rules) :
       /\ i < j /\ j < k
       /\ \A n \in {i, j, k} : test(args.rules[n].regex, args.target)
       /\ RankOf(args.rules[i].severity) < RankOf(args.rules[j].severity)
       /\ RankOf(args.rules[k].severity) < RankOf(args.rules[j].severity)
       /\ ret.value = args.rules[j].severity

\* C9: the severity of every processed candidate is the higher of the
\* severity the name rules give its name and the severity the value rules
\* give its literal (no value term when no literal was extracted); when both
\* are absent it is MEDIUM if a heuristic fires and absent otherwise.
C9_CandidateSeverity ==
  Processed =>
    LET byName == getSeverityFromRules(cand.key, SUSPICIOUS_NAMES)
        byValue == IF cand.literal = << >> THEN undefined
                   ELSE getSeverityFromRules(cand.literal[1], SUSPICIOUS_VALUES)
    IN  IF byName = undefined /\ byValue = undefined
        THEN cand.severity = IF Heuristic(cand.key, cand.literal) THEN "MEDIUM"
                             ELSE undefined
        ELSE /\ cand.severity \in {byName, byValue}
             /\ RankOf(cand.severity) >= RankOf(byName)
             /\ RankOf(cand.severity) >= RankOf(byValue)

\* a candidate whose literal is rated higher than its name, under a name
\* that trips the heuristic as well, keeps the higher severity
C9_Witness ==
  /\ Processed
  /\ cand.literal # << >>
  /\ Heuristic(cand.key, cand.literal)
  /\ getSeverityFromRules(cand.literal[1], SUSPICIOUS_VALUES) = "HIGH"
  /\ cand.severity = "HIGH"

\* C10: no step of the walk lowers the overall severity of an identifier in
\* the result object of an activation; the merge of a subdirectory leaves
\* the parent's at least as high as the subdirectory's, and the returned
\* result has the severities of the outermost activation.
C10_OverallSeverityNeverDecreases ==
  [][ /\ \A i \in 1..Len(stack) :
           i <= Len(stack') => NotLowered(stack[i].result, stack'[i].result)
      /\ (Len(stack) > 1 /\ Len(stack') = Len(stack) - 1)
           => NotLowered(Top.result, stack'[Len(stack')].result)
      /\ (Len(outcomes') > Len(outcomes)
            /\ outcomes'[Len(outcomes')].status = "returned")
           => NotLowered(Top.result, outcomes'[Len(outcomes')].result)
    ]_vars

\* the result of the root holds, for dbHost, a Suggestion of its own and a
\* lower one merged from lib
C10_Witness ==
  /\ Len(stack) = 1
  /\ "dbHost" \in DOMAIN stack[1].result
  /\ \E s, t \in Range(stack[1].result["dbHost"].suggested) :
       /\ s.file = join(Root, "a.js")
       /\ t.file = join(LibDir, "a.js")
       /\ SEVERITY_RANK[t.severity] < SEVERITY_RANK[s.severity]

(***************************************************************************)
(* Properties of what one file contributes, on the trees of SmallTrees.    *)
(***************************************************************************)
\* the files of the tree that a scan reaches (none below build) and whose
\* text is text
ScannedFilesWith(text) ==
  {f \in {join(Root, tree.dirs[Root][1].name), join(LibDir, tree.dirs[LibDir][1].name)} :
     tree.files[f] = text}

\* the Suggestions of identifier k in a result
SuggestedOf(result, k) ==
  IF k \in DOMAIN result THEN Range(result[k].suggested) ELSE {}

\* C11: after every step, every Suggestion of every result object carries a
\* severity of {LOW, MEDIUM, HIGH, CRITICAL}, and the iteration of a
\* candidate whose severity is absent leaves the result as it was.
C11_EverySuggestionHasASeverity ==
  [][ /\ \A i \in 1..Len(stack') :
           \A k \in DOMAIN stack'[i].result :
             \A sg \in Range(stack'[i].result[k].suggested) : sg.severity \in Severities
      /\ \A i \in 1..Len(outcomes') :
           \A k \in DOMAIN outcomes'[i].result :
             \A sg \in Range(outcomes'[i].result[k].suggested) : sg.severity \in Severities
      /\ (cand'.live /\ cand'.severity = undefined) => stack' = stack
    ]_vars

\* a candidate without a severity has been processed and left no entry,
\* next to a recorded Suggestion of the same file
C11_Witness ==
  /\ Processed
  /\ cand.severity = undefined
  /\ cand.key \notin DOMAIN Top.result
  /\ \E k \in DOMAIN Top.result : \E sg \in Range(Top.result[k].suggested) :
       sg.file = cand.file

\* C12 as the specification states it: when two scanned files hold
\* const dbUrl = "https://api.example.com/db"; the returned result has for
\* dbUrl exactly two Suggestions, one per file, each of severity HIGH.
C12_TwoUrlSuggestionsAreHigh ==
  \A c \in Returned :
    Cardinality(ScannedFilesWith(JsDbUrl)) = 2 =>
      LET sgs == SuggestedOf(outcomes[c].result, "dbUrl")
      IN  /\ Len(outcomes[c].result["dbUrl"].suggested) = 2
          /\ {sg.file : sg \in sgs} = ScannedFilesWith(JsDbUrl)
          /\ \A sg \in sgs : sg.severity = "HIGH"

\* C13 as the specification states it: a scanned file that declares
\* colorTheme with the literal dark leaves no entry for colorTheme.
C13_ColorThemeIsNotSuggested ==
  \A c \in Returned :
    ScannedFilesWith(JsColorTheme) # {} => "colorTheme" \notin DOMAIN outcomes[c].result

\* C13: a candidate named colorTheme with the literal dark trips no
\* heuristic and no value rule, gets the severity LOW from the name rules,
\* and its file then has a Suggestion for colorTheme with severity LOW and
\* value dark.
C13_ColorThemeIsLow ==
  (Processed /\ cand.key = "colorTheme" /\ cand.literal = <<"dark">>)
    => /\ ~ Heuristic(cand.key, cand.literal)
       /\ getSeverityFromRules("dark", SUSPICIOUS_VALUES) = undefined
       /\ cand.severity = "LOW"
       /\ [file |-> cand.file, value |-> <<"dark">>, severity |-> "LOW"]
            \in SuggestedOf(Top.result, "colorTheme")

\* a call returned an entry for colorTheme
C13_Witness ==
  \E c \in Returned :
    /\ ScannedFilesWith(JsColorTheme) # {}
    /\ \E sg \in SuggestedOf(outcomes[c].result, "colorTheme") :
         sg.severity = "LOW" /\ sg.file \in ScannedFilesWith(JsColorTheme)

\* the Suggestion the current candidate stands for
SuggestionOfCand ==
  [file |-> cand.file, value |-> cand.literal, severity |-> cand.severity]

\* str is sk_live_ followed by at least n characters of class
IsLiveKey(str, n, class) ==
  /\ LitAt(str, 1, "sk_live_", FALSE)
  /\ Len(str) >= Len("sk_live_") + n
  /\ AllIn(str, class)

\* C14: a candidate named apiKey whose literal is sk_live_ followed by 32 or
\* more opaque characters gets the severity CRITICAL, and its file then has a
\* Suggestion for apiKey with severity CRITICAL.
C14_LiveKeyIsCritical ==
  (Processed /\ cand.key = "apiKey" /\ cand.literal # << >>
     /\ \E n \in OpaqueLengths : IsLiveKey(cand.literal[1], n, TokenChars))
    => /\ cand.severity = "CRITICAL"
       /\ SuggestionOfCand \in SuggestedOf(Top.result, "apiKey")

\* a call returned a CRITICAL Suggestion for apiKey with the key as value
C14_Witness ==
  \E c \in Returned :
    \E sg \in SuggestedOf(outcomes[c].result, "apiKey") :
      /\ sg.severity = "CRITICAL"
      /\ sg.value # << >>
      /\ \E n \in OpaqueLengths : IsLiveKey(sg.value[1], n, TokenChars)

\* C15: a Suggestion that an iteration of the candidate loop adds to the
\* result is the Suggestion of that candidate: its file, as value the
\* literal extracted from its initializer (absent when there is none), and
\* its severity; for userRegion = "us-east-1" that is MEDIUM with us-east-1.
C15_ValueIsTheLiteralOfTheSite ==
  [][ (cand'.live /\ stack' # << >>) =>
        LET before == Top.result
            after == stack'[Len(stack')].result
        IN  /\ \A k \in DOMAIN after :
                 \A sg \in SuggestedOf(after, k) \ SuggestedOf(before, k) :
                   /\ k = cand'.key
                   /\ sg = [file |-> cand'.file,
                            value |-> LiteralOf(cand'.initializer),
                            severity |-> cand'.severity]
            /\ cand'.key = "userRegion" =>
                 [file |-> cand'.file, value |-> <<"us-east-1">>, severity |-> "MEDIUM"]
                    \in SuggestedOf(after, "userRegion")
    ]_vars

\* a call returned the Suggestion of userRegion with its literal and the
\* one of dbPort, whose initializer is no literal, without a value
C15_Witness ==
  \E c \in Returned :
    /\ \E sg \in SuggestedOf(outcomes[c].result, "userRegion") :
         sg.value = <<"us-east-1">> /\ sg.severity = "MEDIUM"
    /\ \E sg \in SuggestedOf(outcomes[c].result, "dbPort") : sg.value = << >>

\* the mapped extension of the file at path, << >> if it has none
MappedExtOf(path) ==
  LET e == extOf(path) IN IF e = << >> THEN << >> ELSE <<mappedExt(e[1])>>

\* every path of a result
PathsOf(result) ==
  UNION {Range(result[k].usage) \cup {sg.file : sg \in Range(result[k].suggested)} :
           k \in DOMAIN result}

\* the keys MATCHERS is written with (index.ts 40-89)
MatcherKeys == DOMAIN MATCHERS \cup OtherMatcherKeys

\* C16 as the specification states it: every call returns, every path of its
\* result belongs to a file whose mapped extension is a key of MATCHERS, and
\* a tree in which no scanned file has such an extension gives the empty
\* result.
C16_OnlyMatcherExtensionsContribute ==
  \A i \in 1..Len(outcomes) :
    /\ outcomes[i].status = "returned"
    /\ \A f \in PathsOf(outcomes[i].result) :
         MappedExtOf(f) # << >> /\ MappedExtOf(f)[1] \in MatcherKeys
    /\ (\A f \in ScannedFilesWith(EnvFile) \cup ScannedFilesWith(JsDbUrl)
               \cup ScannedFilesWith(JsColorTheme) \cup ScannedFilesWith(JsUserRegion)
               \cup UNION {ScannedFilesWith(JsApiKey(n)) : n \in OpaqueLengths} :
           MappedExtOf(f) = << >> \/ MappedExtOf(f)[1] \notin MatcherKeys)
         => outcomes[i].result = EmptyResult

\* the file types the README lists as supported (README.md 10-26)
ReadmeExtensions ==
  {"js", "jsx", "ts", "tsx", "vue", "py", "rb", "sh", "bash", "env", "json",
   "yaml", "yml", "php", "java", "kt", "go", "cs"}

\* C17 as the specification states it: in a returned result, every scanned
\* file of a type the README lists that reads the variable HOME is in the
\* usage of HOME, and one that sets API_KEY has a Suggestion for it.
C17_ReadmeTypesAreScanned ==
  \A c \in Returned :
    \A d \in {Root, LibDir} :
      LET name == tree.dirs[d][1].name
          f == join(d, name)
          result == outcomes[c].result
      IN  (extOf(name) # << >> /\ extOf(name)[1] \in ReadmeExtensions)
            => /\ Has(tree.files[f], "HOME", FALSE)
                    => "HOME" \in DOMAIN result /\ f \in Range(result["HOME"].usage)
               /\ Has(tree.files[f], "API_KEY=", FALSE)
                    => \E sg \in SuggestedOf(result, "API_KEY") : sg.file = f

\* the directory names of the ignore set, as the text of C18 lists them
IgnoredNames == {"node_modules", ".git", "dist", "build", ".next"}

\* C18: no activation of scanForEnv runs on a directory named node_modules,
\* .git, dist, build or .next, and no path of any result object lies under
\* such a directory.
C18_IgnoredDirectoriesAreNotEntered ==
  /\ \A i \in 1..Len(stack) :
       \A n \in IgnoredNames : ~ Has(stack[i].dir \o "/", "/" \o n \o "/", FALSE)
  /\ \A r \in Accumulators :
       \A f \in PathsOf(r) :
         \A n \in IgnoredNames : ~ Has(f, "/" \o n \o "/", FALSE)

\* a call returned a result with entries, none for the name declared in
\* the file of lib/build
C18_Witness ==
  \E c \in Returned :
    /\ tree.files[join(BuildDir, "x.js")] = JsTwoSites
    /\ outcomes[c].result # EmptyResult
    /\ "dbHost" \notin DOMAIN outcomes[c].result
    /\ \E f \in PathsOf(outcomes[c].result) : Has(f, LibDir \o "/", FALSE)

\* C20 as the specification states it: the iteration of a candidate never
\* throws, and no call of scanForEnv ends with an exception.
C20_NoCandidateMakesTheScanFail ==
  /\ ~ cand.threw
  /\ \A i \in 1..Len(outcomes) : outcomes[i].status # "threw"

\* str is one string literal: a quote, text without that quote, the same
\* quote
IsOneLiteral(str) ==
  /\ Len(str) >= 2
  /\ Ch(str, 1) \in QuoteChars
  /\ Ch(str, Len(str)) = Ch(str, 1)
  /\ \A i \in 2..(Len(str) - 1) : Ch(str, i) # Ch(str, 1)

\* C19 as the specification states it: extractStringLiteral returns a
\* literal exactly when the trimmed fragment is one string literal, and then
\* its inner text; for a concatenation of literals, a call or a number it
\* returns none.
C19_OnlyAWholeLiteralIsExtracted ==
  ret.done =>
    LET str == trim(args.target)
    IN  IF IsOneLiteral(str)
        THEN ret.value = <<SubSeq(str, 2, Len(str) - 1)>>
        ELSE ret.value = << >>

(***************************************************************************)
(* Files that cannot be read.                                              *)
(***************************************************************************)
\* the files the walk reaches that have a matcher: those of the root and of
\* lib
EligibleFiles ==
  UNION { { join(d, tree.dirs[d][i].name) :
              i \in {j \in 1..Len(tree.dirs[d]) :
                /\ ~ tree.dirs[d][j].isDirectory
                /\ MappedExtOf(tree.dirs[d][j].name) # << >>
                /\ MappedExtOf(tree.dirs[d][j].name)[1] \in DOMAIN MATCHERS} } :
          d \in {Root, LibDir} }

UnreadableFiles == {f \in EligibleFiles : ~ CanRead(f)}

\* C21 as the specification states it: when an eligible file of the tree
\* cannot be read, every call of scanForEnv still returns a ScanResult, and
\* the result holds the usage of every readable file: each name its usage
\* pass finds lists the path of the file.
C21_UnreadableFileIsSkipped ==
  \A c \in 1..Len(outcomes) :
    UnreadableFiles # {} =>
      /\ outcomes[c].status = "returned"
      /\ \A f \in EligibleFiles \ UnreadableFiles :
            LET names == UsageOf[CodeOf(MappedExtOf(f)[1], tree.files[f])]
            IN  \A i \in 1..Len(names) :
                  /\ names[i] \in DOMAIN outcomes[c].result
                  /\ f \in Range(outcomes[c].result[names[i]].usage)

(***************************************************************************)
(* The command line (src/src/cli.ts 72-407).  Every command is one run of  *)
(* the program: it loads scanConfig, acts, and saves scanConfig when it    *)
(* changed it; JSON.stringify and JSON.parse give back the same strings.   *)
(* The scanned directory does not change: ret holds what scanForEnv        *)
(* returns for it, as Object.entries lists it.                             *)
(***************************************************************************)
\* process.cwd()
Cwd == "/w"

\* path.resolve(p), for a path without . and .. segments
resolve(p) == IF LitAt(p, 1, "/", FALSE) THEN p ELSE Cwd \o "/" \o p

\* path.relative(process.cwd(), p), for an absolute path p below Cwd
relative(p) == SubSeq(p, Len(Cwd) + 2, Len(p))

\* cli.ts 108-117
isIgnored(variable, file) ==
  IF variable # "" /\ includes(scanConfig.ignore.variables, variable) THEN TRUE
  ELSE IF file # ""
       THEN \E i \in 1..Len(scanConfig.ignore.files) :
               resolve(scanConfig.ignore.files[i]) = resolve(file)
       ELSE FALSE

SEVERITY_ORDER == [LOW |-> 1, MEDIUM |-> 2, HIGH |-> 3, CRITICAL |-> 4]

\* entry.usage[0] ?? entry.suggested[0]?.file ?? "" (cli.ts 214)
FirstFile(entry) ==
  IF entry.usage # << >> THEN entry.usage[1]
  ELSE IF entry.suggested # << >> THEN entry.suggested[1].file
  ELSE ""

\* the loop of cli.ts 232-237 from the i-th Suggestion on
RECURSIVE MaxSeverityFrom(_, _, _)
MaxSeverityFrom(suggested, i, max) ==
  IF i > Len(suggested) THEN max
  ELSE MaxSeverityFrom(suggested, i + 1,
         IF /\ suggested[i].severity # undefined
            /\ SEVERITY_ORDER[suggested[i].severity] > SEVERITY_ORDER[max]
         THEN suggested[i].severity ELSE max)

\* scanConfig.priority && SEVERITY_ORDER[severity] < SEVERITY_ORDER[priority]
BelowPriority(severity) ==
  /\ scanConfig.priority # undefined
  /\ SEVERITY_ORDER[severity] < SEVERITY_ORDER[scanConfig.priority]

\* one iteration of the loop of cli.ts 212-261: whether the key is pushed
\* to existing, and whether it is pushed to suggestions
ReportEntry(entry) ==
  IF isIgnored(entry.key, FirstFile(entry))
  THEN [existing |-> FALSE, suggestion |-> FALSE]
  ELSE IF entry.usage # << >> /\ BelowPriority("LOW")
  THEN [existing |-> FALSE, suggestion |-> FALSE]
  ELSE [existing   |-> entry.usage # << >>,
        suggestion |-> /\ entry.suggested # << >>
                       /\ ~ BelowPriority(MaxSeverityFrom(entry.suggested, 1, "LOW"))]

\* the keys of a list of entries
RECURSIVE KeysOf(_)
KeysOf(entries) ==
  IF entries = << >> THEN << >> ELSE <<Head(entries).key>> \o KeysOf(Tail(entries))

Ran(command) ==
  [last |-> command, answer |-> "", repeated |-> history.last = command,
   before |-> scanConfig, named |-> history.named]

\* scan [dir] (cli.ts 203-276)
Scan ==
  /\ ret.done
  /\ report' =
       [existing    |-> KeysOf(SelectSeq(ret.value, LAMBDA e : ReportEntry(e).existing)),
        suggestions |-> KeysOf(SelectSeq(ret.value, LAMBDA e : ReportEntry(e).suggestion)),
        appended    |-> ""]
  /\ history' = Ran("scan")
  /\ UNCHANGED <<tree, listing, calls, outcomes, stack, cur, lastIndex, cand, args, ret,
                 scanConfig, envFile>>

\* variables.map((v) => v.trim()).filter(Boolean), then the loop of cli.ts
\* 285-292 from the i-th name on
RECURSIVE PushNew(_, _, _)
PushNew(list, names, i) ==
  IF i > Len(names) THEN list
  ELSE PushNew(IF includes(list, names[i]) THEN list ELSE Append(list, names[i]),
               names, i + 1)

\* list.indexOf(v) and list.splice(index, 1), for the names from the i-th on
\* (cli.ts 321-329)
RECURSIVE SpliceAll(_, _, _)
SpliceAll(list, names, i) ==
  IF i > Len(names) THEN list
  ELSE LET at == {j \in 1..Len(list) : list[j] = names[i]}
       IN  SpliceAll(IF at = {} THEN list
                     ELSE SubSeq(list, 1, Least(at) - 1)
                            \o SubSeq(list, Least(at) + 1, Len(list)),
                     names, i + 1)

\* the names a command was given, after f is applied to each, without the
\* empty ones when compact
RECURSIVE Mapped(_, _, _)
Mapped(names, f(_), compact) ==
  IF names = << >> THEN << >>
  ELSE (IF compact /\ f(Head(names)) = "" THEN << >> ELSE <<f(Head(names))>>)
         \o Mapped(Tail(names), f, compact)

\* for every name of names, command is the last one that named it
Naming(names, command) ==
  [v \in DOMAIN history.named |->
     IF v \in Range(names) THEN command ELSE history.named[v]]

\* the variable names and the file names a command can be given
MaxArgs == 2

VariableArgs == {"dbHost", "API_KEY", " dbHost ", ""}

FileArgs == {"r/lib/a.js", "/w/r/lib/a.js", "r/a.js"}

ArgLists(pool) == UNION {[1..n -> pool] : n \in 1..MaxArgs}

\* ignore [variables...] (cli.ts 279-295)
Ignore ==
  \E variables \in ArgLists(VariableArgs) :
    LET variablesToIgnore == Mapped(variables, trim, TRUE)
    IN  /\ scanConfig' = [scanConfig EXCEPT
                            !.ignore.variables = PushNew(@, variablesToIgnore, 1)]
        /\ history' = [Ran("ignore") EXCEPT
                         !.named = Naming(variablesToIgnore, "ignore")]
        /\ report' = NoReport
        /\ UNCHANGED <<tree, listing, calls, outcomes, stack, cur, lastIndex, cand,
                       args, ret, envFile>>

\* unignore [variables...] (cli.ts 317-331)
Unignore ==
  \E variables \in ArgLists(VariableArgs) :
    /\ scanConfig' = [scanConfig EXCEPT
                        !.ignore.variables = SpliceAll(@, variables, 1)]
    /\ history' = [Ran("unignore") EXCEPT !.named = Naming(variables, "unignore")]
    /\ report' = NoReport
    /\ UNCHANGED <<tree, listing, calls, outcomes, stack, cur, lastIndex, cand,
                   args, ret, envFile>>

\* ans.toLowerCase() === "y" (cli.ts 371), and the slip of taking every
\* answer but n for a yes
Confirms_unlessNo(ans) == toLowerCase(ans) # "n"

Confirms(ans) == toLowerCase(ans) = "y"

Answers == {"y", "Y", "n", "yes", ""}

\* reset-ignore [-f] (cli.ts 354-375), with the answer given when asked
ResetIgnore ==
  \E force \in BOOLEAN, ans \in Answers :
    /\ IF force
       THEN /\ scanConfig' = [scanConfig EXCEPT
                                !.ignore = [variables |-> << >>, files |-> << >>]]
            /\ history' = [Ran("reset-ignore --force") EXCEPT
                             !.named = [v \in DOMAIN history.named |-> "reset-ignore"]]
       ELSE IF Confirms(ans)
       THEN /\ scanConfig' = [scanConfig EXCEPT
                                !.ignore = [variables |-> << >>, files |-> << >>]]
            /\ history' = [Ran("reset-ignore") EXCEPT
                             !.answer = ans,
                             !.named = [v \in DOMAIN history.named |-> "reset-ignore"]]
       ELSE /\ scanConfig' = scanConfig
            /\ history' = [Ran("reset-ignore") EXCEPT !.answer = ans]
    /\ report' = NoReport
    /\ UNCHANGED <<tree, listing, calls, outcomes, stack, cur, lastIndex, cand,
                   args, ret, envFile>>

\* ignore-files [files...] (cli.ts 297-315)
IgnoreFiles ==
  \E files \in ArgLists(FileArgs) :
    LET rel(f) == relative(resolve(f))
    IN  /\ scanConfig' = [scanConfig EXCEPT
                            !.ignore.files = PushNew(@, Mapped(files, rel, FALSE), 1)]
        /\ history' = Ran("ignore-files")
        /\ report' = NoReport
        /\ UNCHANGED <<tree, listing, calls, outcomes, stack, cur, lastIndex, cand,
                       args, ret, envFile>>

\* set-priority <level> (cli.ts 378-396): an invalid level ends the run
\* before anything is saved
Levels == {"low", "Medium", "HIGH", "critical", "urgent"}

SetPriority ==
  \E level \in Levels :
    LET severityLevel == toUpperCase(level)
    IN  /\ scanConfig' = IF severityLevel \in DOMAIN SEVERITY_ORDER
                         THEN [scanConfig EXCEPT !.priority = severityLevel]
                         ELSE scanConfig
        /\ history' = Ran("set-priority")
        /\ report' = NoReport
        /\ UNCHANGED <<tree, listing, calls, outcomes, stack, cur, lastIndex, cand,
                       args, ret, envFile>>

\* reset-priority (cli.ts 398-405)
ResetPriority ==
  /\ scanConfig' = [scanConfig EXCEPT !.priority = undefined]
  /\ history' = Ran("reset-priority")
  /\ report' = NoReport
  /\ UNCHANGED <<tree, listing, calls, outcomes, stack, cur, lastIndex, cand,
                 args, ret, envFile>>

(***************************************************************************)
(* The scan command of release 1.1.13 (src/unnamed/part_002 100-205), the  *)
(* one that takes --to-env.  Its ignoreConfig, kept in .envscanignore.json *)
(* and read by the same isIgnored, is scanConfig.ignore here; it has no    *)
(* priority.                                                               *)
(***************************************************************************)
\* isIgnored(variable, '') || allFiles.some((f) => isIgnored('', f))
IgnoredAnywhere(entry) ==
  \/ isIgnored(entry.key, "")
  \/ \E i \in 1..Len(entry.suggested) : isIgnored("", entry.suggested[i].file)

\* one iteration of the loop of part_002 113-145
ListedEntry(entry) ==
  IF entry.usage # << >> THEN [existing |-> TRUE, suggestion |-> FALSE]
  ELSE [existing   |-> FALSE,
        suggestion |-> entry.suggested # << >> /\ ~ IgnoredAnywhere(entry)]

\* existingContent.includes(`${variable}=`), and the slip of never finding
\* the variable
AlreadyPresent_never(existingContent, variable) == FALSE

AlreadyPresent(existingContent, variable) == Has(existingContent, variable \o "=", FALSE)

\* the filter of part_002 169-177
IsNewSuggestion(entry, existingContent) ==
  /\ entry.suggested # << >>
  /\ ~ AlreadyPresent(existingContent, entry.key)
  /\ ~ IgnoredAnywhere(entry)

\* the line written for an entry (part_002 178-187): its first truthy value
EnvLine(entry) ==
  LET values == {i \in 1..Len(entry.suggested) : Truthy(entry.suggested[i].value)}
  IN  IF values # {}
      THEN "\n" \o entry.key \o "=" \o entry.suggested[Least(values)].value[1]
      ELSE entry.key \o "=\"Error grabbing value. Fill me in yourself!\""

\* newSuggestions.join('\n')
RECURSIVE JoinLines(_)
JoinLines(entries) ==
  IF entries = << >> THEN ""
  ELSE IF Len(entries) = 1 THEN EnvLine(entries[1])
  ELSE EnvLine(Head(entries)) \o "\n" \o JoinLines(Tail(entries))

envComment ==
  "\n\n\n# Suggested by env-guardian\n"
    \o "# Next Steps include: Renaming envs to their correct format and adding "
    \o "values the scanner didn't manage to grab.\n"
    \o "# For more info on correct formatting of Environment Variables for your "
    \o "language, \n"
    \o "# visit: https://env-guardian.online/docs/env-naming-conventions/env-variables\n"

\* scan [dir] --to-env (part_002 100-205)
ScanToEnv ==
  /\ ret.done
  /\ LET existingContent == IF envFile = << >> THEN "" ELSE envFile[1]
         newSuggestions ==
           SelectSeq(ret.value, LAMBDA e : IsNewSuggestion(e, existingContent))
         text == envComment \o JoinLines(newSuggestions) \o "\n"
     IN  /\ envFile' = IF newSuggestions # << >>
                       THEN <<existingContent \o text>> ELSE envFile
         /\ report' =
              [existing    |-> KeysOf(SelectSeq(ret.value,
                                                LAMBDA e : ListedEntry(e).existing)),
               suggestions |-> KeysOf(SelectSeq(ret.value,
                                                LAMBDA e : ListedEntry(e).suggestion)),
               appended    |-> IF newSuggestions # << >> THEN text ELSE ""]
  /\ history' = Ran("scan --to-env")
  /\ UNCHANGED <<tree, listing, calls, outcomes, stack, cur, lastIndex, cand, args, ret,
                 scanConfig>>

(***************************************************************************)
(* What scanForEnv returns for the scanned directory: a.js reads           *)
(* process.env.API_KEY and declares dbHost and pwd, lib/a.js declares      *)
(* API_KEY, dbHost and colorTheme and reads process.env.HOME.              *)
(***************************************************************************)
RootFile == "/w/r/a.js"
LibFile == "/w/r/lib/a.js"

Suggestion(file, key, value) ==
  [file |-> file, value |-> <<value>>, severity |-> candidateSeverity(key, <<value>>)]

ApiKeyEntry ==
  [key |-> "API_KEY", usage |-> <<RootFile>>,
   suggested |-> <<Suggestion(LibFile, "API_KEY", "abc")>>]

DbHostEntry ==
  [key |-> "dbHost", usage |-> << >>,
   suggested |-> <<Suggestion(RootFile, "dbHost", "x"),
                   Suggestion(LibFile, "dbHost", TwentyA)>>]

PwdEntry ==
  [key |-> "pwd", usage |-> << >>, suggested |-> <<Suggestion(RootFile, "pwd", "")>>]

ColorThemeEntry ==
  [key |-> "colorTheme", usage |-> << >>,
   suggested |-> <<Suggestion(LibFile, "colorTheme", "dark")>>]

HomeEntry == [key |-> "HOME", usage |-> <<LibFile>>, suggested |-> << >>]

ScanResults ==
  { <<ApiKeyEntry, DbHostEntry, HomeEntry>>,
    <<DbHostEntry, PwdEntry, ColorThemeEntry>>,
    <<HomeEntry, ColorThemeEntry>> }

\* no call of scanForEnv is in progress
NoWalk ==
  /\ tree = Tree(JsEnvDot, JsEnvDot, CHOOSE f \in SecondFiles : f.text = ShExport)
  /\ listing = <<Canonical(tree), Canonical(tree)>>
  /\ calls = 0
  /\ outcomes = << >>
  /\ stack = << >>
  /\ cur = NoFile
  /\ lastIndex = ZeroLastIndex
  /\ cand = NoCand

(***************************************************************************)
(* The commands that list and filter: scans, ignore-files and the          *)
(* priority commands, from a configuration that ignores no file and at     *)
(* most the variable dbHost.                                               *)
(***************************************************************************)
InitCli ==
  /\ NoWalk
  /\ args = [target |-> Root, rules |-> << >>]
  /\ \E results \in ScanResults : ret = [done |-> TRUE, value |-> results]
  /\ \E variables \in {<< >>, <<"dbHost">>} :
        scanConfig = [DefaultConfig EXCEPT !.ignore.variables = variables]
  /\ envFile \in {<< >>, <<"API_KEY=abc\n">>}
  /\ report = NoReport
  /\ history = NoHistory

NextCli ==
  \/ Scan
  \/ ScanToEnv
  \/ IgnoreFiles
  \/ SetPriority
  \/ ResetPriority

SpecCli == InitCli /\ [][NextCli]_vars

(***************************************************************************)
(* The commands that edit ignore.variables, from every configuration       *)
(* whose list has no duplicates; such a list was written by ignore         *)
(* commands.                                                               *)
(***************************************************************************)
IgnoredLists ==
  {<< >>, <<"dbHost">>, <<"API_KEY">>, <<"dbHost", "API_KEY">>, <<"API_KEY", "dbHost">>}

InitIgnore ==
  /\ NoWalk
  /\ args = NoArgs
  /\ ret = NoRet
  /\ \E variables \in IgnoredLists :
        /\ scanConfig = [DefaultConfig EXCEPT !.ignore.variables = variables]
        /\ history = [NoHistory EXCEPT
                        !.named = [v \in VariableArgs |->
                                     IF v \in Range(variables) THEN "ignore" ELSE ""]]
  /\ envFile = << >>
  /\ report = NoReport

NextIgnore ==
  \/ Ignore
  \/ Unignore
  \/ ResetIgnore

SpecIgnore == InitIgnore /\ [][NextIgnore]_vars

\* the identifiers the last scan listed under Suggested Environment Variables
ListedSuggestions == Range(report.suggestions)

\* the files an entry names, resolved
FilesOf(entry) ==
  {resolve(f) : f \in Range(entry.usage)}
    \cup {resolve(sg.file) : sg \in Range(entry.suggested)}

\* the files ignore-files has saved, resolved
IgnoredFiles == {resolve(f) : f \in Range(scanConfig.ignore.files)}

\* C22 as the specification states it: with a priority P stored, scan lists
\* under Suggested Environment Variables exactly the identifiers that are
\* not ignored, have a Suggestion, and have a Suggestion of a severity at or
\* above P, whether or not they have usage entries.
C22_SuggestionsAtOrAbovePriority ==
  (history.last = "scan" /\ scanConfig.priority # undefined) =>
    ListedSuggestions =
      { e.key : e \in { x \in Range(ret.value) :
          /\ ~ isIgnored(x.key, FirstFile(x))
          /\ \E sg \in Range(x.suggested) :
                SEVERITY_ORDER[sg.severity] >= SEVERITY_ORDER[scanConfig.priority] } }

\* C23 as the specification states it: once ignore-files has saved a file,
\* a scan lists no variable that has a usage or a Suggestion in that file,
\* whatever other files the variable occurs in.
C23_VariablesOfIgnoredFilesAreSuppressed ==
  history.last \in {"scan", "scan --to-env"} =>
    \A e \in Range(ret.value) :
      FilesOf(e) \cap IgnoredFiles # {} =>
        e.key \notin Range(report.existing) \cup ListedSuggestions

\* C24: a scan --to-env that directly follows a scan --to-env appends
\* nothing to the env file, and after every such run each variable that has
\* a Suggestion and is not ignored is found in the file, followed by =.
C24_SecondToEnvRunAppendsNothing ==
  history.last = "scan --to-env" =>
    /\ history.repeated => report.appended = ""
    /\ \A e \in Range(ret.value) :
         (e.suggested # << >> /\ ~ IgnoredAnywhere(e)) =>
           /\ envFile # << >>
           /\ Has(envFile[1], e.key \o "=", FALSE)

\* the second of two runs in a row, the first of which wrote dbHost and pwd
C24_Witness ==
  /\ history.last = "scan --to-env"
  /\ history.repeated
  /\ report.appended = ""
  /\ envFile # << >>
  /\ Has(envFile[1], "# Suggested by env-guardian", FALSE)
  /\ Has(envFile[1], "\ndbHost=x\n", FALSE)
  /\ Has(envFile[1], "pwd=\"Error grabbing value.", FALSE)

\* C25 as the specification states it: when the candidate pass of a file
\* starts (the file is open, its first regular expression is in use and no
\* iteration has run), every regular expression of MATCHERS has lastIndex 0,
\* whatever was scanned before, in this call or an earlier one.
C25_CandidatePassStartsAtZero ==
  (cur.open /\ cur.ri = 1 /\ ~ cand.live) => lastIndex = ZeroLastIndex

\* the capture groups of each regular expression of MATCHERS, read off the
\* expression itself: the number of the group that captures the declared
\* name (0 when it has none) and of the group that captures the initializer
\* or value
NameGroup(shape) ==
  CASE shape = "decl" -> 2
    [] shape \in {"registry", "auth"} -> 0
    [] OTHER -> 1

ValueGroup(shape) ==
  CASE shape = "decl" -> 3
    [] shape \in {"registry", "auth"} -> 1
    [] OTHER -> 2

\* C26 as the specification states it: in every iteration of the candidate
\* loop the key is the text of the name group of the regular expression
\* that matched and the initializer is the trimmed text of its initializer
\* group; for a declaration the key is never the keyword, and for the
\* patterns of .npmrc, which capture no name, the key is not the token.
C26_KeyIsTheNameGroup ==
  cand.live =>
    /\ cand.initializer = trim(cand.m[ValueGroup(cand.shape)])
    /\ IF NameGroup(cand.shape) # 0
       THEN cand.key = cand.m[NameGroup(cand.shape)]
       ELSE cand.key # cand.m[ValueGroup(cand.shape)]
    /\ cand.shape = "decl" => cand.key \notin DeclKeywords

\* list a is the beginning of list b
IsPrefix(a, b) == Len(a) <= Len(b) /\ SubSeq(b, 1, Len(a)) = a

\* result after holds every key of result before, and under each key the
\* lists of before, unchanged, at the beginning of its lists
Extends(before, after) ==
  \A k \in DOMAIN before :
    /\ k \in DOMAIN after
    /\ IsPrefix(before[k].usage, after[k].usage)
    /\ IsPrefix(before[k].suggested, after[k].suggested)

\* result holds everything nested holds
Holds(result, nested) ==
  \A k \in DOMAIN nested :
    /\ k \in DOMAIN result
    /\ Range(nested[k].usage) \subseteq Range(result[k].usage)
    /\ Range(nested[k].suggested) \subseteq Range(result[k].suggested)

\* C27: in every step of a walk, the accumulator of each activation that
\* goes on extends what it was: no key is deleted and under every key the
\* usage list and the suggested list keep their elements, in their order and
\* unchanged, at their beginning.  When an activation returns, its
\* accumulator is what the caller receives: the activation of the parent
\* directory then holds all of it, and the caller of scanForEnv gets it as
\* it is.
C27_AccumulatorOnlyGrows ==
  [][ /\ \A i \in 1..Len(stack) :
           i <= Len(stack') => Extends(stack[i].result, stack'[i].result)
      /\ (Len(stack) > 1 /\ Len(stack') = Len(stack) - 1) =>
           Holds(stack'[Len(stack')].result, Top.result)
      /\ (Len(outcomes') > Len(outcomes)
            /\ outcomes'[Len(outcomes')].status = "returned") =>
           outcomes'[Len(outcomes')].result = Top.result ]_vars

\* the root activation after the merge of lib: dbHost has the Suggestion of
\* r/a.js first and the one of r/lib/a.js after it
C27_Witness ==
  /\ Len(stack) = 1
  /\ "dbHost" \in DOMAIN Top.result
  /\ Len(Top.result["dbHost"].suggested) = 2
  /\ Top.result["dbHost"].suggested[1].file = join(Root, "a.js")
  /\ Top.result["dbHost"].suggested[2].file = join(LibDir, "a.js")

C29_NoEmptyEntry ==
  /\ [](\A result \in Accumulators :
          \A k \in DOMAIN result :
             result[k].usage # << >> \/ result[k].suggested # << >>)
  /\ [][ (cand'.live /\ (cand'.skipped \/ cand'.severity = undefined)) =>
           stack' = stack ]_vars

\* a returned result with an entry that has usage only and one that has
\* Suggestions only, and without the skipped candidate token
C29_Witness ==
  \E c \in Returned :
    LET r == outcomes[c].result
    IN  /\ tree.files[join(Root, "a.js")] = JsEnvDot
        /\ "AUTH_TOKEN" \in DOMAIN r
        /\ r["AUTH_TOKEN"].suggested = << >>
        /\ "dbHost" \in DOMAIN r
        /\ r["dbHost"].usage = << >>
        /\ "token" \notin DOMAIN r

\* the text holds two slashes side by side
HasSlashes(text) == Has(text, "//", FALSE)

\* the path is of a Vue component
IsVue(path) == MappedExtOf(path) = <<"vue">>

\* the Suggestions of every result object
AllSuggestions ==
  UNION { UNION { Range(result[k].suggested) : k \in DOMAIN result } :
          result \in Accumulators }

\* C30 as the specification states it: the text the passes of a file work
\* on never holds //, no Suggestion has a value that holds //, and no
\* literal that holds // is extracted.
C30_NoSlashesReachThePasses ==
  /\ cur.open => ~ HasSlashes(cur.code)
  /\ \A sg \in AllSuggestions : sg.value # << >> => ~ HasSlashes(sg.value[1])
  /\ (cand.live /\ cand.literal # << >>) => ~ HasSlashes(cand.literal[1])

\* C30, for the files that are not Vue components: the text the passes work
\* on holds no //, so no Suggestion of such a file has a value that holds //
\* and no literal that holds // is extracted from it; the initializer of a
\* declaration whose literal is a URL ends before the two slashes.
C30_NoSlashesOutsideVue ==
  /\ (cur.open /\ ~ IsVue(cur.path)) => ~ HasSlashes(cur.code)
  /\ \A sg \in AllSuggestions :
        (sg.value # << >> /\ ~ IsVue(sg.file)) => ~ HasSlashes(sg.value[1])
  /\ (cand.live /\ ~ IsVue(cand.file)) =>
        /\ ~ HasSlashes(cand.initializer)
        /\ cand.literal # << >> => ~ HasSlashes(cand.literal[1])

\* the declaration of dbUrl in u.js, whose text holds the literal
\* "https://api.example.com/db": the initializer stops at the colon and no
\* literal is extracted
C30_Witness ==
  /\ cand.live
  /\ tree.files[cand.file] = JsDbUrl
  /\ cand.key = "dbUrl"
  /\ cand.initializer = "\"https:"
  /\ cand.literal = << >>

====
